---------------------------- MODULE Spec2Model ----------------------------
(***************************************************************************)
(* Pairing and connectivity layer of the MiniK appliance:                  *)
(*   utils/device_manager.py      DeviceManager, NetworkManager            *)
(*   network/heartbeat_manager.py HeartbeatManager                         *)
(*   network/ble_manager.py       BLEManager                               *)
(*   controller/app_controller.py AppController                            *)
(* Python values: None is the string "None" where the field holds strings, *)
(* and the one-element tuple <<"None">> where it holds byte/char sequences.*)
(***************************************************************************)
EXTENDS Integers, Sequences, FiniteSets, TLC

VARIABLES
    USE_REAL_NETWORK,   \* config.USE_REAL_NETWORK
    known_devices,      \* DeviceManager.config_data['known_devices']
    now,                \* the wall clock read by datetime.now()
    heartbeat,          \* DeviceManager.heartbeat: NoHB or a HeartbeatManager
    hbStarts,           \* number of HeartbeatManager.start() calls so far
    lastSaved,          \* per MAC, the credentials of the latest save_pairing
    nSaves,             \* number of save_pairing calls so far
    CONFIG_FILE,        \* the file DeviceManager.CONFIG_FILE names
    dm,                 \* the DeviceManager process: device_id, and where it
                        \* is in start-up or in _write_config
    wifi,               \* a call of WiFiManager.connect: its polls, the
                        \* thread it started, and the SSID the interface is on
    app,                \* MiniKApp: the hardware-ready event and the poll
                        \* _check_hw_ready scheduled by on_start
    nProbes,            \* number of heartbeat probes so far
    hbRun,              \* consecutive failed probes since the last success or start
    hbPrev,             \* _is_connected before the latest probe
    lastReach,          \* result of the latest probe: "none", "ok" or "fail"
    lastSched,          \* the callback the latest probe scheduled, or "none"
    cbLog,              \* the callbacks scheduled on the Clock, in order
    ble,                \* the BLEManager object and its GATT server thread
    bleGhost,           \* what the phone wrote, per advertising attempt, and
                        \* what the latest start_advertising returned
    bleCall,            \* the caller of wait_for_pairing and its last result
    backend,            \* NetworkManager.ble / .wifi: "real" or "mock" objects
    scanCapable,        \* the BLE backend offers scan_for_devices and
                        \* notify_enable_hotspot
    net,                \* NetworkManager.mode and the calls made through it
    ctl,                \* AppController fields
    ui,                 \* ScreenManager.current and the PairingScreen state
    workers,            \* the running background threads (live), and the
                        \* one that finished last (done)
    clockq,             \* callbacks posted with Clock.schedule_once(..., 0)
    screenLog,          \* the states shown since boot, in order, up to the
                        \* first user action
    boot                \* start-up: the pending start_pairing_screen call

regVars == <<USE_REAL_NETWORK, known_devices, now, heartbeat, hbStarts,
             lastSaved, nSaves, CONFIG_FILE, dm, wifi, app>>

hbVars == <<nProbes, hbRun, hbPrev, lastReach, lastSched, cbLog>>

bleVars == <<ble, bleGhost, bleCall>>

ctlVars == <<backend, scanCapable, net, ctl, ui, workers, clockq, screenLog,
             boot>>

vars == <<regVars, hbVars, bleVars, ctlVars>>

(***************************************************************************)
(* Bounds of the model                                                     *)
(***************************************************************************)
MaxSaves == 3
MaxProbes == 6
MaxUserActions == 1
MaxFaults == 1
MaxWrites == 2
MaxScans == 2
MaxStarts == 2
MaxRounds == 2
MaxDt == 2
MaxBootStarts == 2

(***************************************************************************)
(* Python helpers                                                          *)
(***************************************************************************)
\* truthiness of a str-or-None value
Truthy(v) == v \notin {"None", ""}

Callback(fn, arg, n) == [fn |-> fn, arg |-> arg, n |-> n]

\* dict.get(key, default)
Get(d, k, default) == IF k \in DOMAIN d THEN d[k] ELSE default

\* next((i for i, d in enumerate(seq) if P(d)), 0): first matching index or 0
FirstIndex(seq, P(_)) ==
    IF \E i \in 1..Len(seq) : P(seq[i])
    THEN CHOOSE i \in 1..Len(seq) :
            P(seq[i]) /\ \A j \in 1..(i - 1) : ~P(seq[j])
    ELSE 0

(***************************************************************************)
(* HeartbeatManager construction and start                                 *)
(***************************************************************************)
NoHB == [phone_address |-> "None", _failure_count |-> 0,
         _is_connected |-> "None", state |-> "absent"]

\* HeartbeatManager.__init__
HeartbeatManager(phone_address) ==
    [phone_address |-> phone_address, _failure_count |-> 0,
     _is_connected |-> "None", state |-> "new"]

\* HeartbeatManager.start: clears the stop event and starts the probe loop
start(h) == [h EXCEPT !.state = "running"]

\* HeartbeatManager.stop: sets the stop event
stop(h) == [h EXCEPT !.state = "stopped"]

HbIdle ==
    /\ nProbes = 0
    /\ hbRun = 0
    /\ hbPrev = "None"
    /\ lastReach = "none"
    /\ lastSched = "none"
    /\ cbLog = <<>>

(***************************************************************************)
(* BLEManager construction                                                 *)
(***************************************************************************)
None == <<"None">>

\* BLEManager.__init__; gatt is the state of the _run_loop thread:
\* "off", "starting", "up" (application and advertisement registered), "failed"
BLEManager ==
    [_running |-> FALSE, ssid |-> None, password |-> None,
     _cred_event |-> FALSE, _ip_char |-> "None", gatt |-> "off"]

NoCreds == [ssid |-> None]

BleIdle ==
    /\ ble = BLEManager
    /\ bleGhost = [attempt |-> 0, wSsid |-> FALSE, wPass |-> FALSE,
                   everSsid |-> FALSE, everPass |-> FALSE,
                   delivered |-> FALSE, stoppedAfter |-> FALSE,
                   advOk |-> FALSE]
    /\ bleCall = [pc |-> "idle", result |-> NoCreds, returns |-> 0]

\* WiFiManager with no connect called yet.  pc: "idle", "poll" (in the loop
\* of connect), "done"; nmcli: what the thread `delayed` got from its
\* command ("none" before connect, "pending" until it ran); active: the SSID
\* the interface is associated with, <<>> for none; ret: what connect
\* returned; saw: some poll ran while the interface was on the target SSID
\* None where a result (the JSON body of a POST) is expected
NoResult == <<"None">>

\* the keys of WiFiManager._result_events
ResultTypes == {"cnn_result", "ml_result"}

\* _results and _result_events per result type; for each type, post is
\* where the phone's POST of the result is ("none", "pending": the file was
\* sent and the phone will POST, "stored": receive_result has stored the
\* data, "done": it has set the event), sent is the data of that POST, wfm
\* is where wait_for_message is and what it returned, rounds counts the
\* files sent
WiFiManager ==
    [pc |-> "idle", ssid |-> <<>>, password |-> <<>>, polls |-> 0,
     nmcli |-> "none", active |-> <<>>, ret |-> "None", saw |-> FALSE,
     _results |-> [t \in ResultTypes |-> NoResult],
     _result_events |-> [t \in ResultTypes |-> FALSE],
     post |-> [t \in ResultTypes |-> "none"],
     sent |-> [t \in ResultTypes |-> NoResult],
     wfm |-> [t \in ResultTypes |-> [pc |-> "idle", ret |-> NoResult]],
     rounds |-> [t \in ResultTypes |-> 0]]

WifiIdle == wifi = WiFiManager

(***************************************************************************)
(* MiniKApp at on_start                                                    *)
(***************************************************************************)
\* _hw_ready: the event _init_hardware sets in its finally;
\* _hw_wait_elapsed: the sum of the dt of the polls, in units of the 0.2 s
\* interval; poll: _check_hw_ready is scheduled on the Clock; starts: the
\* calls of start_pairing_screen it made; why: what the poll that made the
\* latest call had seen
MiniKApp ==
    [_hw_ready |-> FALSE, _hw_wait_elapsed |-> 0, poll |-> TRUE, starts |-> 0,
     why |-> "none"]

\* the poll has done its work and is unscheduled.  The specifications that
\* do not follow the poll start here; the call of start_pairing_screen it
\* made is the one that boot.pending stands for
Booted == [MiniKApp EXCEPT !._hw_ready = TRUE, !.poll = FALSE, !.starts = 1,
                           !.why = "hw_done"]

AppIdle == app = Booted

(***************************************************************************)
(* AppController, NetworkManager and PairingScreen at construction         *)
(***************************************************************************)
NoMessage == [text |-> "Scan QR code with MiniK app to pair", name |-> ""]

\* NetworkManager.__init__; nmcli holds the commands the latest
\* WiFiManager.connect issued
NetworkManager == [mode |-> "ble", serverStarts |-> 0, notifyCalls |-> 0,
                   scanCalls |-> 0, nmcli |-> <<>>]

\* AppController.__init__: ble_timeout_event is the Clock event of the
\* latest start_pairing; orphans counts earlier events never cancelled
AppController == [current_connected_mac |-> "None",
                  ble_timeout_event |-> "None", orphans |-> 0]

\* PairingScreen.__init__ under ScreenManager.current = 'pairing'; fault
\* tells that a Clock callback raised on the UI thread
PairingScreen == [current |-> "pairing", state |-> "starting",
                  message |-> NoMessage, home_device |-> "None",
                  fault |-> FALSE]

\* no background thread has been started
NoWorkers ==
    [live |-> <<>>,
     done |-> [kind |-> "none", pc |-> "done", arg |-> [name |-> "None"],
               attempt |-> 0,
               fails |-> 0, log |-> <<>>,
               known |-> [alias |-> TRUE, list |-> <<>>]]]

CtlIdle ==
    /\ backend = "mock"
    /\ scanCapable = FALSE
    /\ net = NetworkManager
    /\ ctl = AppController
    /\ ui = PairingScreen
    /\ workers = NoWorkers
    /\ clockq = <<>>
    /\ screenLog = <<>>
    /\ boot = [pending |-> FALSE, emptyAtBoot |-> FALSE, userActions |-> 0,
               last |-> "none", faults |-> 0]

(***************************************************************************)
(* DeviceManager: the registry of known devices                            *)
(***************************************************************************)
MACs   == {"m1", "m2"}
Names  == {"A", "B"}
SSIDs  == {<<"a">>, <<"b">>}
Passwords == {<<"p">>, <<"q">>}

\* DeviceManager.has_known_devices
has_known_devices(known) == Len(known) > 0

\* save_pairing keeping the whole credentials dict in the entry
save_pairing_verbatim(known, credentials, ts) ==
    Append(known,
           [ble_name       |-> Get(credentials, "ble_name", ""),
            ble_mac        |-> Get(credentials, "ble_mac", ""),
            ssid           |-> Get(credentials, "ssid", <<>>),
            password       |-> Get(credentials, "password", <<>>),
            phone_address  |-> Get(credentials, "phone_address", ""),
            last_connected |-> ts])

save_pairing_append(known, credentials, ts) ==
    Append(known,
           [ble_name       |-> Get(credentials, "ble_name", ""),
            ble_mac        |-> Get(credentials, "ble_mac", ""),
            ssid           |-> Get(credentials, "ssid", <<>>),
            phone_address  |-> Get(credentials, "phone_address", ""),
            last_connected |-> ts])

\* DeviceManager.save_pairing, the registry part: upsert by ble_mac
save_pairing(known, credentials, ts) ==
    LET ble_mac == Get(credentials, "ble_mac", "")
        entry   == [ble_name       |-> Get(credentials, "ble_name", ""),
                    ble_mac        |-> ble_mac,
                    ssid           |-> Get(credentials, "ssid", <<>>),
                    phone_address  |-> Get(credentials, "phone_address", ""),
                    last_connected |-> ts]
        HasMac(d) == d.ble_mac = ble_mac
        existing == FirstIndex(known, HasMac)
    IN  IF existing # 0
        THEN \* known[known.index(existing)] = entry: the first equal element
             LET IsIt(d) == d = known[existing]
             IN  [known EXCEPT ![FirstIndex(known, IsIt)] = entry]
        ELSE Append(known, entry)

(***************************************************************************)
(* The config file: json.dump and json.load                                *)
(*                                                                         *)
(* A Python value that json handles is a tagged value: None, a str (a      *)
(* sequence of pieces of text), a list, or a dict (its items in insertion  *)
(* order).  The text of a file is the sequence of the JSON tokens in it;   *)
(* the white space that indent=2 adds is skipped by json.load and is left  *)
(* out.                                                                    *)
(***************************************************************************)
JNull == [t |-> "null", v |-> <<>>]

JStr(s) == [t |-> "str", v |-> s]

JList(items) == [t |-> "list", v |-> items]

JDict(items) == [t |-> "dict", v |-> items]

Item(key, value) == [k |-> key, v |-> value]

Tok(t, v) == [t |-> t, v |-> v]

Punct(t) == Tok(t, <<>>)

\* the chunks one after the other, with nothing between them
RECURSIVE Joined_plain(_)
Joined_plain(chunks) ==
    IF Len(chunks) = 0 THEN <<>>
    ELSE chunks[1] \o Joined_plain(Tail(chunks))

\* the chunks of a list or dict body, with the item separator between them
RECURSIVE Joined(_)
Joined(chunks) ==
    IF Len(chunks) = 0 THEN <<>>
    ELSE IF Len(chunks) = 1 THEN chunks[1]
    ELSE chunks[1] \o <<Punct(",")>> \o Joined(Tail(chunks))

\* json.dumps: the tokens json.dump writes for a value, in order
RECURSIVE dumps(_)
dumps(j) ==
    CASE j.t = "null" -> <<Punct("null")>>
      [] j.t = "str"  -> <<Tok("str", j.v)>>
      [] j.t = "list" ->
            <<Punct("[")>>
            \o Joined([i \in DOMAIN j.v |-> dumps(j.v[i])])
            \o <<Punct("]")>>
      [] j.t = "dict" ->
            <<Punct("{")>>
            \o Joined([i \in DOMAIN j.v |->
                         <<Tok("str", <<j.v[i].k>>), Punct(":")>>
                         \o dumps(j.v[i].v)])
            \o <<Punct("}")>>

\* the JSON decoder: the value that starts at token i and the index after
\* it, or a failure (JSONDecodeError)
NoParse == [ok |-> FALSE, val |-> JNull, next |-> 0]

Parsed(val, next) == [ok |-> TRUE, val |-> val, next |-> next]

RECURSIVE ParseValue(_, _), ParseItems(_, _, _), ParseMembers(_, _, _)
ParseValue(toks, i) ==
    IF i > Len(toks) THEN NoParse
    ELSE CASE toks[i].t = "null" -> Parsed(JNull, i + 1)
           [] toks[i].t = "str"  -> Parsed(JStr(toks[i].v), i + 1)
           [] toks[i].t = "["    ->
                 IF i < Len(toks) /\ toks[i + 1].t = "]"
                 THEN Parsed(JList(<<>>), i + 2)
                 ELSE ParseItems(toks, i + 1, <<>>)
           [] toks[i].t = "{"    ->
                 IF i < Len(toks) /\ toks[i + 1].t = "}"
                 THEN Parsed(JDict(<<>>), i + 2)
                 ELSE ParseMembers(toks, i + 1, <<>>)
           [] OTHER -> NoParse

\* the rest of a list: a value, then ',' and more, or ']'
ParseItems(toks, i, acc) ==
    LET r == ParseValue(toks, i)
    IN  IF ~r.ok \/ r.next > Len(toks) THEN NoParse
        ELSE IF toks[r.next].t = ","
             THEN ParseItems(toks, r.next + 1, Append(acc, r.val))
        ELSE IF toks[r.next].t = "]"
             THEN Parsed(JList(Append(acc, r.val)), r.next + 1)
        ELSE NoParse

\* the rest of a dict: "key" ':' value, then ',' and more, or '}'
ParseMembers(toks, i, acc) ==
    IF i + 1 > Len(toks) \/ toks[i].t # "str" \/ toks[i + 1].t # ":"
    THEN NoParse
    ELSE LET r == ParseValue(toks, i + 2)
             m == Append(acc, Item(toks[i].v[1], r.val))
         IN  IF ~r.ok \/ r.next > Len(toks) THEN NoParse
             ELSE IF toks[r.next].t = ","
                  THEN ParseMembers(toks, r.next + 1, m)
             ELSE IF toks[r.next].t = "}"
                  THEN Parsed(JDict(m), r.next + 1)
             ELSE NoParse

\* json.loads: the whole text is one value, anything else raises
loads(toks) ==
    LET r == ParseValue(toks, 1)
    IN  IF r.ok /\ r.next = Len(toks) + 1 THEN r ELSE NoParse

\* 'key' in data, and data[key], for a loaded dict
HasKey(j, key) == j.t = "dict" /\ \E i \in DOMAIN j.v : j.v[i].k = key

Value(j, key) == j.v[CHOOSE i \in DOMAIN j.v : j.v[i].k = key].v

\* the values of the registry as Python values.  A str-or-None field of the
\* model is the str, or "None" for None; an SSID is a str in pieces, or
\* <<"None">>; a time stamp is the str datetime.isoformat() makes of it
PyStr(x) == IF x = "None" THEN JNull ELSE JStr(<<x>>)

PySsid(s) == IF s = None THEN JNull ELSE JStr(s)

isoformat(ts) == JStr(<<ToString(ts)>>)

PyEntry(d) ==
    JDict(<<Item("ble_name", PyStr(d.ble_name)),
            Item("ble_mac", PyStr(d.ble_mac)),
            Item("ssid", PySsid(d.ssid)),
            Item("phone_address", PyStr(d.phone_address)),
            Item("last_connected", isoformat(d.last_connected))>>)

\* config_data: {'device_id': ..., 'known_devices': [...]}
ConfigData(device_id, known) ==
    JDict(<<Item("device_id", PyStr(device_id)),
            Item("known_devices", JList([i \in DOMAIN known |-> PyEntry(known[i])]))>>)

\* the other way, for what was loaded
\* the time stamps a registry can hold: 0 at the start, then the clock,
\* which starts at 1 and advances with the mutations
Stamps == 0..(MaxWrites + 1)

ModelStr(j) == IF j.t = "null" THEN "None" ELSE j.v[1]

ModelSsid(j) == IF j.t = "null" THEN None ELSE j.v

ModelStamp(j) == CHOOSE ts \in Stamps : ToString(ts) = j.v[1]

ModelEntry(j) ==
    [ble_name       |-> ModelStr(Value(j, "ble_name")),
     ble_mac        |-> ModelStr(Value(j, "ble_mac")),
     ssid           |-> ModelSsid(Value(j, "ssid")),
     phone_address  |-> ModelStr(Value(j, "phone_address")),
     last_connected |-> ModelStamp(Value(j, "last_connected"))]

\* get_known_devices on loaded data: config_data.get('known_devices', [])
LoadedDevices(j) ==
    IF HasKey(j, "known_devices")
    THEN LET l == Value(j, "known_devices").v
         IN  [i \in DOMAIN l |-> ModelEntry(l[i])]
    ELSE <<>>

\* the config file: absent, or with the tokens written to it so far
NoFile == [exists |-> FALSE, text |-> <<>>]

File(text) == [exists |-> TRUE, text |-> text]

\* DeviceManager._write_config that ran to its end: open(CONFIG_FILE, 'w')
\* and json.dump(data, f)
_write_config(data) == File(dumps(data))

\* the DeviceManager process.  pc: "down" (not running), "boot" (in
\* __init__, before _load_config), "writing" (inside _write_config, after
\* open(CONFIG_FILE, 'w'), with `buf` still to be written and `next` to
\* follow), "up" (constructed).  old and new are the registry content
\* before and after the latest mutation, hit tells that the process died
\* inside the _write_config of that mutation, and loaded that config_data
\* is what _load_config read in this run of the program
Content(device_id, known) == [device_id |-> device_id, known |-> known]

DeviceManager(known) ==
    [device_id |-> "id0", pc |-> "up", buf |-> <<>>, next |-> "up",
     old |-> Content("id0", known), new |-> Content("id0", known),
     hit |-> FALSE, nWrites |-> 0, loaded |-> FALSE]

\* a running program whose file holds its registry
DmIdle ==
    /\ dm = DeviceManager(known_devices)
    /\ CONFIG_FILE = _write_config(ConfigData(dm.device_id, known_devices))

\* DeviceManager._start_heartbeat: stop the old monitor, start a new one
_start_heartbeat(phone_address) == start(HeartbeatManager(phone_address))

\* DeviceManager.save_pairing as one step: registry write, then heartbeat
SavePairingStep(credentials) ==
    /\ known_devices' = save_pairing(known_devices, credentials, now)
    /\ CONFIG_FILE' = _write_config(ConfigData(dm.device_id, known_devices'))
    /\ now' = now + 1
    /\ lastSaved' = [lastSaved EXCEPT
                        ![Get(credentials, "ble_mac", "")] = credentials]
    /\ nSaves' = nSaves + 1
    /\ IF USE_REAL_NETWORK /\ Truthy(Get(credentials, "phone_address", "None"))
       THEN /\ heartbeat' = _start_heartbeat(credentials.phone_address)
            /\ hbStarts' = hbStarts + 1
       ELSE UNCHANGED <<heartbeat, hbStarts>>
    /\ UNCHANGED <<USE_REAL_NETWORK, app, wifi, dm>>

\* the credential dicts handed to save_pairing: with the phone's identity
\* (ble_mac, ble_name), or as BLEManager.wait_for_pairing builds them
CredInputs ==
    [ble_mac : MACs, ble_name : Names, ssid : SSIDs,
     password : Passwords, phone_address : {"ip1"}]
    \cup [ssid : SSIDs, password : Passwords, phone_address : {"None", "ip1"}]

NoSave == [ssid |-> <<"None">>]

Device(mac, name, ssid) ==
    [ble_name |-> name, ble_mac |-> mac, ssid |-> ssid,
     phone_address |-> "ip1", last_connected |-> 0]

\* registries a config file written by this program can hold at start-up
InitRegistries ==
    { <<>>,
      <<Device("m1", "A", <<"a">>)>>,
      <<Device("m2", "B", <<"b">>), Device("m1", "A", <<"a">>)>> }

RegInit ==
    /\ USE_REAL_NETWORK \in BOOLEAN
    /\ known_devices \in InitRegistries
    /\ now = 1
    /\ heartbeat = NoHB
    /\ hbStarts = 0
    /\ lastSaved = [m \in MACs \cup {""} |-> NoSave]
    /\ nSaves = 0
    /\ DmIdle
    /\ HbIdle
    /\ BleIdle
    /\ WifiIdle
    /\ AppIdle
    /\ CtlIdle

RegSave ==
    /\ nSaves < MaxSaves
    /\ \E c \in CredInputs : SavePairingStep(c)
    /\ UNCHANGED <<hbVars, bleVars, ctlVars>>

RegNext == RegSave

SpecRegistry == RegInit /\ [][RegNext]_vars

(***************************************************************************)
(* C1: over every sequence of save_pairing calls from a registry with      *)
(* unique MACs, no two entries of known_devices share a ble_mac, and the   *)
(* entry of a MAC carries the ble_name, ssid and phone_address of the most *)
(* recent save for that MAC.                                               *)
(***************************************************************************)
UniqueMacs(known) ==
    \A i, j \in 1..Len(known) : known[i].ble_mac = known[j].ble_mac => i = j

C1_UniqueMostRecentWins ==
    /\ UniqueMacs(known_devices)
    /\ \A m \in DOMAIN lastSaved :
          lastSaved[m] # NoSave =>
             \E i \in 1..Len(known_devices) :
                /\ known_devices[i].ble_mac = m
                /\ known_devices[i].ble_name = Get(lastSaved[m], "ble_name", "")
                /\ known_devices[i].ssid = lastSaved[m].ssid
                /\ known_devices[i].phone_address = lastSaved[m].phone_address

\* a MAC saved twice with different data, beside another entry
C1_Witness ==
    /\ nSaves >= 2
    /\ Len(known_devices) >= 2
    /\ \E i \in 1..Len(known_devices) :
          /\ known_devices[i].ble_mac = "m1"
          /\ known_devices[i].last_connected > 1
          /\ known_devices[i].ssid = <<"b">>

(***************************************************************************)
(* HeartbeatManager: the probe loop                                        *)
(***************************************************************************)
MAX_FAILURES == 3

\* _check with a strict comparison against MAX_FAILURES
_check_late(h, reachable) ==
    IF reachable
    THEN [h |-> [h EXCEPT !._failure_count = 0, !._is_connected = "True"],
          sched |-> IF h._is_connected # "True" THEN "on_connected" ELSE "none"]
    ELSE LET n == h._failure_count + 1
         IN  IF n > MAX_FAILURES /\ h._is_connected # "False"
             THEN [h |-> [h EXCEPT !._failure_count = n,
                                   !._is_connected = "False"],
                   sched |-> "on_disconnected"]
             ELSE [h |-> [h EXCEPT !._failure_count = n], sched |-> "none"]

\* _check scheduling its callback at every probe in the state
_check_level(h, reachable) ==
    IF reachable
    THEN [h |-> [h EXCEPT !._failure_count = 0, !._is_connected = "True"],
          sched |-> "on_connected"]
    ELSE LET n == h._failure_count + 1
         IN  IF n >= MAX_FAILURES
             THEN [h |-> [h EXCEPT !._failure_count = n,
                                   !._is_connected = "False"],
                   sched |-> "on_disconnected"]
             ELSE [h |-> [h EXCEPT !._failure_count = n], sched |-> "none"]

\* HeartbeatManager._check for one probe result: the monitor afterwards and
\* the callback handed to Clock.schedule_once ("none": nothing scheduled)
_check(h, reachable) ==
    IF reachable
    THEN [h |-> [h EXCEPT !._failure_count = 0, !._is_connected = "True"],
          sched |-> IF h._is_connected # "True" THEN "on_connected" ELSE "none"]
    ELSE LET n == h._failure_count + 1
         IN  IF n >= MAX_FAILURES /\ h._is_connected # "False"
             THEN [h |-> [h EXCEPT !._failure_count = n,
                                   !._is_connected = "False"],
                   sched |-> "on_disconnected"]
             ELSE [h |-> [h EXCEPT !._failure_count = n], sched |-> "none"]

\* HeartbeatManager.is_phone_online
is_phone_online(h) == h._is_connected = "True"

\* one pass of _loop: the stop event is not set, _tcp_ping answers, _check runs
HbProbe ==
    /\ heartbeat.state = "running"
    /\ nProbes < MaxProbes
    /\ \E reachable \in BOOLEAN :
          LET r == _check(heartbeat, reachable)
          IN  /\ heartbeat' = r.h
              /\ hbPrev' = heartbeat._is_connected
              /\ lastReach' = IF reachable THEN "ok" ELSE "fail"
              /\ hbRun' = IF reachable THEN 0 ELSE hbRun + 1
              /\ lastSched' = r.sched
              /\ cbLog' = IF r.sched = "none" THEN cbLog
                          ELSE Append(cbLog, r.sched)
              \* Clock.schedule_once(lambda dt: self.on_...(), 0)
              /\ clockq' = IF r.sched = "none" THEN clockq
                           ELSE Append(clockq,
                                       Callback(r.sched, [name |-> ""], 0))
    /\ nProbes' = nProbes + 1
    /\ UNCHANGED <<USE_REAL_NETWORK, app, wifi, known_devices, now, hbStarts, lastSaved,
                   nSaves, CONFIG_FILE, dm, bleVars, backend, scanCapable,
                   net, ctl, ui, workers, screenLog, boot>>

\* an on_disconnected that sends the user back to pairing
on_disconnected_repair(u) == [u EXCEPT !.current = "pairing", !.state = "qr"]

\* the callbacks DeviceManager._start_heartbeat gives the monitor: each
\* prints a line, and leaves the screens as they are
on_connected(u) == u

on_disconnected(u) == u

\* the Clock runs a callback the monitor scheduled
HbClock ==
    /\ clockq # <<>>
    /\ Head(clockq).fn \in {"on_connected", "on_disconnected"}
    /\ clockq' = Tail(clockq)
    /\ ui' = IF Head(clockq).fn = "on_connected"
             THEN on_connected(ui) ELSE on_disconnected(ui)
    /\ UNCHANGED <<regVars, hbVars, bleVars, backend, scanCapable, net, ctl,
                   workers, screenLog, boot>>

\* HeartbeatManager.stop: _loop leaves at its next wait
HbStop ==
    /\ heartbeat.state = "running"
    /\ heartbeat' = stop(heartbeat)
    /\ UNCHANGED <<USE_REAL_NETWORK, app, wifi, known_devices, now, hbStarts, lastSaved,
                   nSaves, CONFIG_FILE, dm, hbVars, bleVars, ctlVars>>

\* a monitor as DeviceManager._start_heartbeat builds and starts it
\* the controller on the home screen, connected to the phone it paired with
CtlAtHome ==
    /\ known_devices # <<>>
    /\ backend = "mock"
    /\ scanCapable = FALSE
    /\ net = [NetworkManager EXCEPT !.mode = "wifi", !.serverStarts = 1]
    /\ ctl = [AppController EXCEPT
                 !.current_connected_mac = known_devices[1].ble_mac]
    /\ ui = [PairingScreen EXCEPT !.current = "home", !.state = "waiting_ble",
                                  !.home_device = known_devices[1].ble_name]
    /\ workers = NoWorkers
    /\ clockq = <<>>
    /\ screenLog = <<>>
    /\ boot = [pending |-> FALSE, emptyAtBoot |-> TRUE, userActions |-> 0,
               last |-> "none", faults |-> 0]

HbInit ==
    /\ USE_REAL_NETWORK = TRUE
    /\ known_devices \in {<<>>, <<Device("m1", "A", <<"a">>)>>}
    /\ now = 1
    /\ \E a \in {"ip1", "ip2"} : heartbeat = _start_heartbeat(a)
    /\ hbStarts = 1
    /\ lastSaved = [m \in MACs \cup {""} |-> NoSave]
    /\ nSaves = 0
    /\ DmIdle
    /\ HbIdle
    /\ BleIdle
    /\ WifiIdle
    /\ AppIdle
    /\ CtlIdle \/ CtlAtHome

HbNext == HbProbe \/ HbStop \/ HbClock

SpecHeartbeat == HbInit /\ [][HbNext]_vars

(***************************************************************************)
(* C3: over every interleaving of successful and failed probes the status  *)
(* becomes Offline (_is_connected = False) only at the probe that completes*)
(* a run of exactly MAX_FAILURES consecutive failures since the last       *)
(* success or the start, and a successful probe leaves _failure_count at 0.*)
(***************************************************************************)
C3_OfflineAfterExactlyMaxFailures ==
    /\ (hbPrev # "False" /\ heartbeat._is_connected = "False")
          => (lastReach = "fail" /\ hbRun = MAX_FAILURES)
    /\ heartbeat._is_connected = "False" => hbRun >= MAX_FAILURES
    /\ lastReach = "ok" => heartbeat._failure_count = 0

\* Online, then a run of failures that turned the status Offline
C3_Witness ==
    /\ hbPrev = "True"
    /\ heartbeat._is_connected = "False"
    /\ hbRun = MAX_FAILURES

MaxWaits == 3

\* HAS_DBUS: dbus_next was imported. When the import fails the class
\* statements of ble_manager raise NameError (ServiceInterface is unbound),
\* the module cannot be imported and no BLEManager exists
HAS_DBUS == TRUE

\* truthiness of a str-or-None value held as a character sequence
TruthyStr(v) == v # None /\ v # <<>>

IsSpace(c) == c \in {" ", "\n"}

RECURSIVE lstrip(_)
lstrip(v) == IF v # <<>> /\ IsSpace(Head(v)) THEN lstrip(Tail(v)) ELSE v

RECURSIVE rstrip(_)
rstrip(v) ==
    IF v # <<>> /\ IsSpace(v[Len(v)])
    THEN rstrip(SubSeq(v, 1, Len(v) - 1))
    ELSE v

\* str.strip
strip(v) == rstrip(lstrip(v))

\* bytes(value).decode('utf-8') succeeds: no byte outside a valid encoding
Decodes(v) == \A i \in 1..Len(v) : v[i] # "x80"

\* the byte strings a phone writes to a characteristic
WriteValues ==
    { <<>>, <<"a">>, <<" ">>, <<" ", "a">>, <<"b", " ">>, <<"x80">> }

\* BLEManager._check_credentials
_check_credentials(b) ==
    IF TruthyStr(b.ssid) /\ TruthyStr(b.password)
    THEN [b EXCEPT !._cred_event = TRUE]
    ELSE b

\* BLEManager._on_ssid_write
_on_ssid_write(b, value) == _check_credentials([b EXCEPT !.ssid = value])

\* BLEManager._on_pass_write
_on_pass_write(b, value) == _check_credentials([b EXCEPT !.password = value])

\* WritableCharacteristic.WriteValue on the SSID or the PASSWORD
\* characteristic: a value that does not decode raises before _on_write
WriteValue(b, char, value) ==
    IF ~Decodes(value) THEN b
    ELSE IF char = "ssid" THEN _on_ssid_write(b, strip(value))
    ELSE _on_pass_write(b, strip(value))

\* BLEManager.start_advertising: starts the _run_loop thread, returns True
start_advertising(b) ==
    IF HAS_DBUS THEN [b EXCEPT !._running = TRUE, !.gatt = "starting"] ELSE b

\* the value start_advertising returns: True once the thread of the GATT
\* server is started, whatever becomes of the registration
start_advertising_returns == HAS_DBUS

\* a stop that leaves the advertising as it is
stop_ble_noop(b) == b

\* BLEManager.stop: stops the event loop of the GATT server if it runs
stop_ble(b) ==
    [b EXCEPT !._running = FALSE,
              !.gatt = IF b.gatt \in {"starting", "up"} THEN "off" ELSE b.gatt]

\* BLEManager.wait_for_pairing once _cred_event.wait has returned:
\* the credentials when the event is set, None after the timeout
wait_for_pairing(b) ==
    IF b._cred_event
    THEN [ssid |-> b.ssid, password |-> b.password, phone_address |-> "None"]
    ELSE NoCreds

\* BLEManager.send_ip_to_phone: False when the IP characteristic is missing
send_ip_to_phone(b, ip_address) ==
    IF b._ip_char = "None"
    THEN [b |-> b, ok |-> FALSE]
    ELSE [b |-> [b EXCEPT !._ip_char = ip_address], ok |-> TRUE]

\* _start_gatt_server up to its registration with BlueZ: the bus connection
\* fails, or a registration call fails after the characteristics were built,
\* or both registrations succeed
GattOutcome(b) ==
    { [b EXCEPT !.gatt = "failed"],
      [b EXCEPT !.gatt = "failed", !._ip_char = ""],
      [b EXCEPT !.gatt = "up", !._ip_char = ""] }

BleUnchangedRest == UNCHANGED <<regVars, hbVars, ctlVars>>

BleStartAdvertising ==
    /\ bleCall.pc = "idle"
    /\ bleGhost.attempt < MaxWaits
    /\ ble' = start_advertising(ble)
    /\ bleGhost' = [bleGhost EXCEPT !.attempt = @ + 1, !.wSsid = FALSE,
                                    !.wPass = FALSE,
                                    !.advOk = start_advertising_returns]
    /\ bleCall' = [bleCall EXCEPT !.pc = "waiting"]
    /\ BleUnchangedRest

BleGattServer ==
    /\ ble.gatt = "starting"
    /\ ble' \in GattOutcome(ble)
    /\ UNCHANGED <<bleGhost, bleCall>>
    /\ BleUnchangedRest

\* the phone writes a characteristic of the registered application
BlePhoneWrite ==
    /\ ble.gatt = "up"
    /\ \E char \in {"ssid", "password"}, value \in WriteValues :
          /\ ble' = WriteValue(ble, char, value)
          /\ bleGhost' = IF char = "ssid"
                         THEN [bleGhost EXCEPT !.wSsid = TRUE, !.everSsid = TRUE]
                         ELSE [bleGhost EXCEPT !.wPass = TRUE, !.everPass = TRUE]
    /\ UNCHANGED bleCall
    /\ BleUnchangedRest

\* _cred_event.wait returns because the event is set
BleWaitReturn ==
    /\ bleCall.pc = "waiting"
    /\ ble._cred_event
    /\ bleCall' = [pc |-> "got", result |-> wait_for_pairing(ble),
                   returns |-> bleCall.returns + 1]
    /\ bleGhost' = [bleGhost EXCEPT !.delivered = TRUE]
    /\ UNCHANGED ble
    /\ BleUnchangedRest

\* _cred_event.wait returns after 180 s without the event
BleWaitTimeout ==
    /\ bleCall.pc = "waiting"
    /\ ~ble._cred_event
    /\ bleCall' = [pc |-> "got", result |-> wait_for_pairing(ble),
                   returns |-> bleCall.returns + 1]
    /\ UNCHANGED <<ble, bleGhost>>
    /\ BleUnchangedRest

\* the caller sends the IP after credentials arrived
BleSendIp ==
    /\ bleCall.pc = "got"
    /\ bleCall.result # NoCreds
    /\ ble' = send_ip_to_phone(ble, "10.0.0.2").b
    /\ UNCHANGED <<bleGhost, bleCall>>
    /\ BleUnchangedRest

BleStop ==
    /\ bleCall.pc = "got"
    /\ ble' = stop_ble(ble)
    /\ bleGhost' = [bleGhost EXCEPT !.stoppedAfter = bleGhost.delivered]
    /\ bleCall' = [bleCall EXCEPT !.pc = "idle"]
    /\ BleUnchangedRest

BleInit ==
    /\ USE_REAL_NETWORK = TRUE
    /\ known_devices = <<>>
    /\ now = 1
    /\ heartbeat = NoHB
    /\ hbStarts = 0
    /\ lastSaved = [m \in MACs \cup {""} |-> NoSave]
    /\ nSaves = 0
    /\ DmIdle
    /\ HbIdle
    /\ BleIdle
    /\ WifiIdle
    /\ AppIdle
    /\ CtlIdle

BleNext ==
    \/ BleStartAdvertising
    \/ BleGattServer
    \/ BlePhoneWrite
    \/ BleWaitReturn
    \/ BleWaitTimeout
    \/ BleSendIp
    \/ BleStop

SpecBLE == BleInit /\ [][BleNext]_vars

(***************************************************************************)
(* C5: the credential-ready event is set if and only if the SSID and the   *)
(* PASSWORD characteristic have each been written at least once, in either *)
(* order and with any written value.                                       *)
(***************************************************************************)
C5_ReadyIffBothWritten ==
    ble._cred_event <=> (bleGhost.everSsid /\ bleGhost.everPass)

(***************************************************************************)
(* C6: credentials are scoped to one provisioning attempt: once an attempt *)
(* has delivered credentials and BLE was stopped, wait_for_pairing of a    *)
(* later start_advertising returns credentials only after both SSID and    *)
(* PASSWORD were written again during that later attempt.                  *)
(***************************************************************************)
C6_CredentialsScopedToAttempt ==
    (bleGhost.stoppedAfter /\ bleCall.pc = "got" /\ bleCall.result # NoCreds)
        => (bleGhost.wSsid /\ bleGhost.wPass)

(***************************************************************************)
(* DeviceManager: reconnect helpers                                        *)
(***************************************************************************)
\* update_last_connected that also moves the stamped entry to the front
update_last_connected_front(known, ble_mac, ts) ==
    LET HasMac(d) == d.ble_mac = ble_mac
        i == FirstIndex(known, HasMac)
    IN  IF i = 0 THEN known
        ELSE <<[known[i] EXCEPT !.last_connected = ts]>>
                \o SubSeq(known, 1, i - 1)
                \o SubSeq(known, i + 1, Len(known))

\* DeviceManager.update_last_connected: stamps the first entry with the MAC
update_last_connected(known, ble_mac, ts) ==
    LET HasMac(d) == d.ble_mac = ble_mac
        i == FirstIndex(known, HasMac)
    IN  IF i = 0 THEN known ELSE [known EXCEPT ![i].last_connected = ts]

\* {key(d): d for d in known}.get(k): the last entry with the key, or none
LastIndex(seq, P(_)) ==
    IF \E i \in 1..Len(seq) : P(seq[i])
    THEN CHOOSE i \in 1..Len(seq) :
            P(seq[i]) /\ \A j \in (i + 1)..Len(seq) : ~P(seq[j])
    ELSE 0

NotFound == [mac |-> "None", name |-> "None"]

\* what the BLE backend's scan_for_devices(known_macs, known_names, timeout)
\* reports: the first advertiser whose address or name is known, or None
BackendScan(known_macs, known_names) ==
    {NotFound} \cup [mac : known_macs, name : known_names]

\* NetworkManager.scan_for_devices: None unless the backend has the method
scan_for_devices(known_macs, known_names) ==
    IF scanCapable THEN BackendScan(known_macs, known_names) ELSE {NotFound}

\* DeviceManager.scan_for_known_devices for one report of the radio scan:
\* the registry entry matched by MAC, else by name, else 0 (None)
scan_for_known_devices(known, found) ==
    IF found = NotFound THEN 0
    ELSE LET ByMac(d)  == d.ble_mac = found.mac
             ByName(d) == d.ble_name = found.name
         IN  IF LastIndex(known, ByMac) # 0 THEN LastIndex(known, ByMac)
             ELSE LastIndex(known, ByName)

(***************************************************************************)
(* PairingScreen states                                                    *)
(***************************************************************************)
show_scanning(u) ==
    [u EXCEPT !.state = "scanning",
              !.message = [text |-> "Looking for your phone", name |-> ""]]

show_connecting(u, device_name) ==
    [u EXCEPT !.state = "connecting",
              !.message = [text |-> "Connecting to hotspot",
                           name |-> device_name]]

show_hotspot_prompt(u, device_name) ==
    [u EXCEPT !.state = "hotspot_prompt",
              !.message = [text |-> "hotspot is OFF", name |-> device_name]]

show_waiting_ble(u) ==
    [u EXCEPT !.state = "waiting_ble",
              !.message = [text |-> "Waiting for MiniK app", name |-> ""]]

\* show_qr(message): message or the default text
show_qr(u, message) == [u EXCEPT !.state = "qr", !.message = message]

\* the state a viewer sees: the home screen, or the pairing screen's state
Shown(u) == IF u.current = "home" THEN "home" ELSE u.state

\* pair_btn ('Connect New Phone') is enabled only by show_qr
PairBtnEnabled(u) == u.current = "pairing" /\ u.state = "qr"

\* action_btn: 'Look for my Phone' after show_qr, 'Retry Now' after
\* show_hotspot_prompt, disabled in every other state
ActionBtnMode(u) ==
    IF u.current # "pairing" THEN "disabled"
    ELSE IF u.state = "qr" THEN "scan"
    ELSE IF u.state = "hotspot_prompt" THEN "retry"
    ELSE "disabled"

(***************************************************************************)
(* AppController: boot and the reconnect path                              *)
(***************************************************************************)
WIFI_RETRY_LIMIT == 3

Ev(e, n) == [ev |-> e, n |-> n]

\* `known` is the local variable of update_last_connected: the list object
\* that get_known_devices returned.  While that object is still the one in
\* config_data it is the registry itself (alias); once the UI thread has put
\* another list there, it is the old list with the entries it had then
Aliased == [alias |-> TRUE, list |-> <<>>]

Thread(kind, arg) ==
    [kind |-> kind, pc |-> "run", arg |-> arg, attempt |-> 1, fails |-> 0,
     log |-> <<>>, known |-> Aliased]

\* the live threads with one more
Spawn(t) == [workers EXCEPT !.live = Append(@, t)]

\* thread w continues as t; a thread that returned leaves the live threads
\* and is kept as the latest finished one
Put(w, t) ==
    IF t.pc = "done"
    THEN [live |-> SubSeq(workers.live, 1, w - 1)
                   \o SubSeq(workers.live, w + 1, Len(workers.live)),
          done |-> [t EXCEPT !.known = Aliased]]
    ELSE [workers EXCEPT !.live[w] = t]

\* config_data['known_devices'] = <another list>, as reset_pairing and
\* remove_device do: a thread inside update_last_connected keeps the list it
\* read, which is `old`
Detached(ws, old) ==
    LET Keep(t) == IF t.pc = "write" /\ t.known.alias
                   THEN [t EXCEPT !.known = [alias |-> FALSE, list |-> old]]
                   ELSE t
    IN  [ws EXCEPT !.live = [i \in DOMAIN @ |-> Keep(@[i])]]

\* config_data['known_devices'] = known, by a thread whose `known` is the
\* old list `old`: that list is the registry again, also for any other
\* thread that holds it
Reattached(ws, old) ==
    LET Same(t) == IF t.pc = "write" /\ ~t.known.alias /\ t.known.list = old
                   THEN [t EXCEPT !.known = Aliased]
                   ELSE t
    IN  [ws EXCEPT !.live = [i \in DOMAIN @ |-> Same(@[i])]]

\* the record of shown states, kept while the user has not acted
Logged(u) ==
    IF boot.userActions = 0 THEN Append(screenLog, Shown(u)) ELSE <<>>

\* start_pairing_screen taking the scan branch whatever the registry holds
ScanAtBoot_always(known) == TRUE

\* AppController.start_pairing_screen: scan when devices are known, else QR
ScanAtBoot(known) == has_known_devices(known)

\* AppController.start_pairing_screen: scan when devices are known, else QR
PairingScreenLogic ==
    /\ boot' = [boot EXCEPT !.pending = FALSE]
    /\ IF ScanAtBoot(known_devices)
       THEN /\ ui' = show_scanning(ui)
            /\ workers' = Spawn(Thread("scan", NotFound))
            /\ screenLog' = Logged(ui')
       ELSE /\ ui' = show_qr(ui, NoMessage)
            /\ screenLog' = Logged(ui')
            /\ UNCHANGED workers
    /\ UNCHANGED <<USE_REAL_NETWORK, known_devices, now, heartbeat, hbStarts,
                   lastSaved, nSaves, CONFIG_FILE, dm, wifi, hbVars, bleVars,
                   backend, scanCapable, net, ctl, clockq>>

\* the call of start_pairing_screen that is pending: the one the poll of
\* main.py makes at boot, or the one the Clock makes after forget_device
start_pairing_screen ==
    /\ boot.pending
    /\ PairingScreenLogic
    /\ UNCHANGED app

\* AppController._scan_for_known_device: the whole scan thread
ScanWorker(w) ==
    /\ workers.live[w].kind = "scan"
    /\ workers.live[w].pc = "run"
    /\ LET known == known_devices
           macs  == {known[i].ble_mac : i \in 1..Len(known)}
           names == {known[i].ble_name : i \in 1..Len(known)}
       IN  IF ~has_known_devices(known)
           THEN /\ clockq' = Append(clockq, Callback("show_qr", NoMessage, 0))
                /\ workers' = Put(w, [workers.live[w] EXCEPT !.pc = "done",
                                 !.log = Append(@, Ev("none", 0))])
                /\ UNCHANGED net
           ELSE \* near: the known phone that advertises in range, if any;
                \* found: what NetworkManager.scan_for_devices returns
                \E near \in BackendScan(macs, names) :
                  LET found == IF near \in scan_for_devices(macs, names)
                               THEN near ELSE NotFound
                      m == scan_for_known_devices(known, found)
                      seen == IF near = NotFound THEN <<>>
                              ELSE <<Ev("near", 0)>>
                  IN  /\ net' = [net EXCEPT !.scanCalls = @ + 1]
                      /\ IF m # 0
                         THEN /\ clockq' = Append(clockq,
                                     Callback("auto_connect", known[m], 0))
                              /\ workers' = Put(w, [workers.live[w] EXCEPT !.pc = "done",
                                     !.log = @ \o seen \o <<Ev("found", 0)>>])
                         ELSE /\ clockq' = Append(clockq,
                                     Callback("show_qr", NoMessage, 0))
                              /\ workers' = Put(w, [workers.live[w] EXCEPT !.pc = "done",
                                     !.log = @ \o seen \o <<Ev("none", 0)>>])
    /\ UNCHANGED <<regVars, hbVars, bleVars, backend, scanCapable, ctl, ui,
                   screenLog, boot>>

\* Clock runs _auto_connect(found): show_connecting, start the retry thread
ClockAutoConnect ==
    /\ clockq # <<>>
    /\ Head(clockq).fn = "auto_connect"
    /\ clockq' = Tail(clockq)
    /\ ui' = show_connecting(ui, Head(clockq).arg.ble_name)
    /\ screenLog' = Logged(ui')
    /\ workers' = Spawn(Thread("auto", Head(clockq).arg))
    /\ UNCHANGED <<regVars, hbVars, bleVars, backend, scanCapable, net, ctl,
                   boot>>

\* Clock runs pairing.show_qr(message)
ClockShowQr ==
    /\ clockq # <<>>
    /\ Head(clockq).fn = "show_qr"
    /\ clockq' = Tail(clockq)
    /\ ui' = show_qr(ui, Head(clockq).arg)
    /\ screenLog' = Logged(ui')
    /\ UNCHANGED <<regVars, hbVars, bleVars, backend, scanCapable, net, ctl,
                   workers, boot>>

\* Clock runs pairing.show_hotspot_prompt(device_name, attempt, ...)
ClockPrompt ==
    /\ clockq # <<>>
    /\ Head(clockq).fn = "show_hotspot_prompt"
    /\ clockq' = Tail(clockq)
    /\ ui' = show_hotspot_prompt(ui, Head(clockq).arg.device_name)
    /\ screenLog' = Logged(ui')
    /\ UNCHANGED <<regVars, hbVars, bleVars, backend, scanCapable, net, ctl,
                   workers, boot>>

\* AppController._go_to_home
_go_to_home(u, mac, known) ==
    LET HasMac(d) == d.ble_mac = mac
        i == FirstIndex(known, HasMac)
    IN  [u EXCEPT !.current = "home",
                  !.home_device = IF Truthy(mac) /\ i # 0
                                  THEN known[i].ble_name ELSE @]

\* Clock runs _go_to_home()
ClockGoHome ==
    /\ clockq # <<>>
    /\ Head(clockq).fn = "_go_to_home"
    /\ clockq' = Tail(clockq)
    /\ ui' = _go_to_home(ui, ctl.current_connected_mac, known_devices)
    /\ screenLog' = Logged(ui')
    /\ UNCHANGED <<regVars, hbVars, bleVars, backend, scanCapable, net, ctl,
                   workers, boot>>

\* WiFiManager.connect / MockNetworkManager.connect: what the call can return
connect(be) == IF be = "mock" THEN {TRUE} ELSE BOOLEAN

\* what the first nmcli command of _do_connect can do: print
\* 'successfully', end otherwise, or run into the 30 s timeout
NmcliResults == {"successfully", "error", "timeout"}

\* WiFiManager._do_connect: the nmcli commands it starts.
\* subprocess.run(['nmcli', 'dev', 'wifi', 'connect', ssid, 'password',
\* password]) raises TypeError on password None before a process exists,
\* and `except Exception` ends _do_connect
_do_connect(password, result) ==
    IF password = None THEN <<>>
    ELSE IF result = "error" THEN <<"dev wifi connect", "con up">>
    ELSE <<"dev wifi connect">>

\* the commands of one connect: MockNetworkManager.connect starts none
Issued(be, password, result) ==
    IF be = "real" THEN _do_connect(password, result) ELSE <<>>

\* NetworkManager.connect_wifi: mode becomes 'wifi' on success
connect_wifi(n, ok, cmds) ==
    [n EXCEPT !.mode = IF ok THEN "wifi" ELSE @, !.nmcli = cmds]

\* NetworkManager.notify_enable_hotspot
notify_enable_hotspot(n) == [n EXCEPT !.notifyCalls = @ + 1]

\* NetworkManager.start_wifi_server
start_wifi_server(n) == [n EXCEPT !.serverStarts = @ + 1]

\* for attempt in range(1, WIFI_RETRY_LIMIT + 1): attempt is in the range
InRange_more(attempt) == attempt <= WIFI_RETRY_LIMIT + 1

InRange(attempt) == attempt <= WIFI_RETRY_LIMIT

\* if attempt < WIFI_RETRY_LIMIT: show the hotspot prompt and sleep
PromptAfter_always(attempt) == TRUE

PromptAfter(attempt) == attempt < WIFI_RETRY_LIMIT

\* the end of one pass of the retry loop of thread t: the next attempt, or
\* after the last one the show_qr(message) posted below the loop
LoopNext(t, message) ==
    IF InRange(t.attempt + 1)
    THEN [t |-> [t EXCEPT !.attempt = @ + 1, !.pc = "run"], cb |-> <<>>]
    ELSE [t |-> [t EXCEPT !.pc = "done",
                          !.log = Append(@, Ev("qr", t.attempt))],
          cb |-> <<Callback("show_qr", message, 0)>>]

\* a failed connect_wifi in either retry loop: notify_enable_hotspot, then
\* the prompt and the sleep, or the end of the pass
AttemptFailed(w, message, cmds) ==
    LET t  == workers.live[w]
        a  == t.attempt
        t1 == [t EXCEPT !.fails = @ + 1,
                        !.log = @ \o <<Ev("connect", a), Ev("notify", a)>>]
    IN  /\ net' = notify_enable_hotspot(connect_wifi(net, FALSE, cmds))
        /\ IF PromptAfter(a)
           THEN /\ clockq' = Append(clockq,
                      Callback("show_hotspot_prompt",
                               [device_name |->
                                   Get(t.arg, "ble_name", "your phone")], a))
                /\ workers' = Put(w, [t1 EXCEPT !.pc = "sleep",
                                 !.log = Append(@, Ev("prompt", a))])
           ELSE /\ clockq' = clockq \o LoopNext(t1, message).cb
                /\ workers' = Put(w, LoopNext(t1, message).t)

AutoMessage(t) == [text |-> "Could not reach hotspot", name |-> t.arg.ble_name]

NewPairMessage(t) == [text |-> "Please enable your phone's hotspot", name |-> ""]

ExhaustedMessage(t) ==
    IF t.kind = "auto" THEN AutoMessage(t) ELSE NewPairMessage(t)

\* _auto_connect_retry_logic: connect_wifi(ssid, password=None) and the
\* branch taken on its result, up to the sleep or the return
AutoConnectAttempt(w) ==
    /\ workers.live[w].kind = "auto"
    /\ workers.live[w].pc = "run"
    /\ LET t == workers.live[w]
           a == t.attempt
           cmds(result) == Issued(backend, None, result)
       IN  \E wifi_ok \in connect(backend), result \in NmcliResults :
             IF wifi_ok
             THEN \* up to `known = self.get_known_devices()` of
                  \* update_last_connected
                  /\ ctl' = [ctl EXCEPT
                               !.current_connected_mac = t.arg.ble_mac]
                  /\ net' = connect_wifi(net, TRUE, cmds(result))
                  /\ workers' = Put(w, [workers.live[w] EXCEPT !.pc = "write",
                        !.known = Aliased,
                        !.log = t.log \o <<Ev("connect", a), Ev("ok", a)>>])
                  /\ UNCHANGED clockq
             ELSE /\ AttemptFailed(w, AutoMessage(t), cmds(result))
                  /\ UNCHANGED ctl
    /\ UNCHANGED <<USE_REAL_NETWORK, app, wifi, heartbeat, hbStarts, lastSaved, nSaves,
                   hbVars, bleVars, backend, scanCapable, ui, screenLog, boot,
                   known_devices, now, CONFIG_FILE, dm>>

\* the rest of the successful attempt, on the worker thread with no lock:
\* update_last_connected stamps the entry in `known`, puts `known` into
\* config_data and writes the file; then start_wifi_server and the posted
\* _go_to_home
AutoConnectWrite(w) ==
    /\ workers.live[w].kind = "auto"
    /\ workers.live[w].pc = "write"
    /\ LET t == workers.live[w]
           a == t.attempt
           known == IF t.known.alias THEN known_devices ELSE t.known.list
           after == Put(w, [t EXCEPT !.pc = "done",
                        !.log = t.log \o <<Ev("server", a), Ev("home", a)>>])
       IN  /\ known_devices' = update_last_connected(known, t.arg.ble_mac, now)
           /\ CONFIG_FILE' =
                 _write_config(ConfigData(dm.device_id, known_devices'))
           /\ workers' = IF t.known.alias THEN after
                          ELSE Reattached(after, t.known.list)
    /\ now' = now + 1
    /\ net' = start_wifi_server(net)
    /\ clockq' = Append(clockq, Callback("_go_to_home", [name |-> ""], 0))
    /\ UNCHANGED <<USE_REAL_NETWORK, app, wifi, heartbeat, hbStarts, lastSaved, nSaves,
                   hbVars, bleVars, backend, scanCapable, ui, screenLog, boot,
                   ctl, dm>>

\* time.sleep(WIFI_RETRY_INTERVAL) of either retry loop returns
RetrySleep(w) ==
    /\ workers.live[w].kind \in {"auto", "newpair"}
    /\ workers.live[w].pc = "sleep"
    /\ LET t1 == [workers.live[w] EXCEPT
                     !.log = Append(@, Ev("sleep", workers.live[w].attempt))]
           r  == LoopNext(t1, ExhaustedMessage(t1))
       IN  /\ workers' = Put(w, r.t)
           /\ clockq' = clockq \o r.cb
    /\ UNCHANGED <<regVars, hbVars, bleVars, backend, scanCapable, net, ctl,
                   ui, screenLog, boot>>

(***************************************************************************)
(* AppController: fresh pairing                                            *)
(***************************************************************************)
\* MockNetworkManager.wait_for_pairing
MockCreds == [ssid |-> <<"M">>, password |-> <<"p">>, phone_address |-> "ip1"]

\* NetworkManager.get_local_ip: None without a WiFiManager, else the
\* address of wlan0 or None when it cannot be read
get_local_ip(be) == IF be = "mock" THEN {"None"} ELSE {"None", "10.0.0.2"}

\* Clock.schedule_once(_on_ble_pairing_timeout, 180) stored over the
\* previous event, which stays scheduled if it was still pending
ScheduleTimeout(c) ==
    [c EXCEPT !.ble_timeout_event = "pending",
              !.orphans = IF c.ble_timeout_event = "pending" THEN @ + 1 ELSE @]

\* ble_timeout_event.cancel() when an event is stored
CancelTimeout(c) ==
    [c EXCEPT !.ble_timeout_event = IF @ = "pending" THEN "cancelled" ELSE @]

UserMay == boot.userActions < MaxUserActions

UserDid(action) == [boot EXCEPT !.userActions = @ + 1, !.last = action]

\* the bound counts the taps on the pairing screen; one tap on 'Forget'
\* of the home screen may follow them
MayForget == boot.userActions <= MaxUserActions

\* AppController.start_pairing: the user tapped 'Connect New Phone'
start_pairing ==
    /\ UserMay
    /\ PairBtnEnabled(ui)
    /\ boot' = UserDid("pair")
    /\ ui' = show_waiting_ble(ui)
    /\ screenLog' = <<>>
    /\ IF backend = "real"
       THEN /\ ble' = start_advertising(ble)
            /\ bleGhost' = [bleGhost EXCEPT !.attempt = @ + 1,
                               !.wSsid = FALSE, !.wPass = FALSE,
                               !.advOk = start_advertising_returns]
       ELSE UNCHANGED <<ble, bleGhost>>
    /\ ctl' = ScheduleTimeout(ctl)
    /\ workers' = Spawn(Thread("wait", NoCreds))
    /\ UNCHANGED <<regVars, hbVars, bleCall, backend, scanCapable, net, clockq>>

\* the GATT server thread of the real backend registers, or fails
GattServer ==
    /\ ble.gatt = "starting"
    /\ ble' \in GattOutcome(ble)
    /\ UNCHANGED <<regVars, hbVars, bleGhost, bleCall, ctlVars>>

\* the phone writes the SSID or the PASSWORD characteristic
PhoneWrite ==
    /\ ble.gatt = "up"
    /\ \E char \in {"ssid", "password"}, value \in {<<"a">>} :
          /\ ble' = WriteValue(ble, char, value)
          /\ ble' # ble
          /\ bleGhost' = IF char = "ssid"
                         THEN [bleGhost EXCEPT !.wSsid = TRUE, !.everSsid = TRUE]
                         ELSE [bleGhost EXCEPT !.wPass = TRUE, !.everPass = TRUE]
    /\ UNCHANGED <<regVars, hbVars, bleCall, ctlVars>>

\* AppController._wait_for_pairing: wait_for_pairing returned credentials
WaitWorkerPaired(w) ==
    /\ workers.live[w].kind = "wait"
    /\ workers.live[w].pc = "run"
    /\ backend = "real" => ble._cred_event
    /\ LET result == IF backend = "real" THEN wait_for_pairing(ble)
                     ELSE MockCreds
       IN  /\ clockq' = Append(clockq, Callback("_on_paired", result, 0))
           /\ workers' = Put(w, [workers.live[w] EXCEPT !.pc = "done", !.arg = result,
                             !.log = Append(@, Ev("creds", 0))])
    /\ bleGhost' = [bleGhost EXCEPT !.delivered = TRUE]
    /\ UNCHANGED <<regVars, hbVars, ble, bleCall, backend, scanCapable, net,
                   ctl, ui, screenLog, boot>>

\* AppController._wait_for_pairing: wait_for_pairing returned None
WaitWorkerTimeout(w) ==
    /\ workers.live[w].kind = "wait"
    /\ workers.live[w].pc = "run"
    /\ backend = "real"
    /\ ~ble._cred_event
    /\ clockq' = Append(clockq,
          Callback("show_qr", [text |-> "Pairing timed out", name |-> ""], 0))
    /\ workers' = Put(w, [workers.live[w] EXCEPT !.pc = "done",
                      !.log = Append(@, Ev("timeout", 0))])
    /\ UNCHANGED <<regVars, hbVars, bleVars, backend, scanCapable, net, ctl,
                   ui, screenLog, boot>>

\* the Clock fires _on_ble_pairing_timeout: the stored event or an orphan
BlePairingTimeout ==
    /\ \/ /\ ctl.ble_timeout_event = "pending"
          /\ ctl' = [ctl EXCEPT !.ble_timeout_event = "fired"]
       \/ /\ ctl.orphans > 0
          /\ ctl' = [ctl EXCEPT !.orphans = @ - 1]
    /\ ble' = IF backend = "real" THEN stop_ble(ble) ELSE ble
    /\ ui' = show_qr(ui, [text |-> "Pairing timed out", name |-> ""])
    /\ screenLog' = Logged(ui')
    /\ UNCHANGED <<regVars, hbVars, bleGhost, bleCall, backend, scanCapable,
                   net, workers, clockq, boot>>

\* Clock runs _on_paired(credentials): cancel the timeout, save, connect
ClockOnPaired ==
    /\ clockq # <<>>
    /\ Head(clockq).fn = "_on_paired"
    /\ clockq' = Tail(clockq)
    /\ ctl' = CancelTimeout(ctl)
    /\ SavePairingStep(Head(clockq).arg)
    /\ workers' = Spawn(Thread("newpair", Head(clockq).arg))
    /\ UNCHANGED <<hbVars, bleVars, backend, scanCapable, net, ui, screenLog,
                   boot>>

\* _new_pair_wifi_logic: connect_wifi(ssid, password) and the branch taken
NewPairAttempt(w) ==
    /\ workers.live[w].kind = "newpair"
    /\ workers.live[w].pc = "run"
    /\ LET t == workers.live[w]
           a == t.attempt
           cmds(result) == Issued(backend, t.arg.password, result)
       IN  \E wifi_ok \in connect(backend), result \in NmcliResults :
             IF wifi_ok
             THEN /\ ctl' = [ctl EXCEPT !.current_connected_mac =
                                           Get(t.arg, "ble_mac", "")]
                  /\ net' = connect_wifi(net, TRUE, cmds(result))
                  /\ workers' = Put(w, [workers.live[w] EXCEPT !.pc = "send_ip",
                        !.log = t.log \o <<Ev("connect", a), Ev("ok", a)>>])
                  /\ UNCHANGED clockq
             ELSE /\ AttemptFailed(w, NewPairMessage(t), cmds(result))
                  /\ UNCHANGED ctl
    /\ UNCHANGED <<regVars, hbVars, bleVars, backend, scanCapable, ui,
                   screenLog, boot>>

\* if pi_ip: send_ip_to_phone(pi_ip)
SendsIp(pi_ip) == Truthy(pi_ip)

\* _new_pair_wifi_logic after a successful connect: get_local_ip and
\* send_ip_to_phone, up to the time.sleep(1)
NewPairSendIp(w) ==
    /\ workers.live[w].kind = "newpair"
    /\ workers.live[w].pc = "send_ip"
    /\ \E pi_ip \in get_local_ip(backend) :
          LET sent == IF SendsIp(pi_ip) /\ backend = "real"
                      THEN send_ip_to_phone(ble, pi_ip)
                      ELSE [b |-> ble, ok |-> FALSE]
          IN  /\ ble' = sent.b
              /\ workers' = Put(w, [workers.live[w] EXCEPT !.pc = "stop",
                    !.log = @ \o
                       (<<Ev("local_ip", IF Truthy(pi_ip) THEN 1 ELSE 0)>> \o
                        IF sent.ok
                        THEN <<Ev("send_ip", workers.live[w].attempt)>>
                        ELSE <<>>)])
    /\ UNCHANGED <<regVars, hbVars, bleGhost, bleCall, backend, scanCapable,
                   net, ctl, ui, clockq, screenLog, boot>>

\* _new_pair_wifi_logic: stop_ble, start_wifi_server, post _go_to_home
NewPairFinish(w) ==
    /\ workers.live[w].kind = "newpair"
    /\ workers.live[w].pc = "stop"
    /\ ble' = IF backend = "real" THEN stop_ble(ble) ELSE ble
    /\ bleGhost' = [bleGhost EXCEPT !.stoppedAfter = bleGhost.delivered]
    /\ net' = start_wifi_server(net)
    /\ clockq' = Append(clockq, Callback("_go_to_home", [name |-> ""], 0))
    /\ workers' = Put(w, [workers.live[w] EXCEPT !.pc = "done",
          !.log = @ \o <<Ev("stop_ble", workers.live[w].attempt),
                            Ev("server", workers.live[w].attempt),
                            Ev("home", workers.live[w].attempt)>>])
    /\ UNCHANGED <<regVars, hbVars, bleCall, backend, scanCapable, ctl, ui,
                   screenLog, boot>>

(***************************************************************************)
(* AppController: the other user actions                                   *)
(***************************************************************************)
\* DeviceManager.remove_device
remove_device(known, ble_mac) ==
    LET Keep(d) == d.ble_mac # ble_mac IN SelectSeq(known, Keep)

\* AppController.rescan_for_devices: the user tapped 'Look for my Phone'
rescan_for_devices ==
    /\ UserMay
    /\ ActionBtnMode(ui) = "scan"
    /\ boot' = UserDid("rescan")
    /\ ui' = show_scanning(ui)
    /\ screenLog' = <<>>
    /\ workers' = Spawn(Thread("scan", NotFound))
    /\ UNCHANGED <<regVars, hbVars, bleVars, backend, scanCapable, net, ctl,
                   clockq>>

\* AppController.retry_wifi_now: the user tapped 'Retry Now'
retry_wifi_now ==
    /\ UserMay
    /\ ActionBtnMode(ui) = "retry"
    /\ boot' = UserDid("retry")
    /\ ui' = show_scanning(ui)
    /\ screenLog' = <<>>
    /\ workers' = Spawn(Thread("scan", NotFound))
    /\ UNCHANGED <<regVars, hbVars, bleVars, backend, scanCapable, net, ctl,
                   clockq>>

\* AppController.reset_pairing: the user tapped 'Reset All Pairings'
reset_pairing ==
    /\ UserMay
    /\ ui.current = "pairing"
    /\ boot' = UserDid("reset")
    /\ heartbeat' = IF heartbeat.state = "absent" THEN heartbeat ELSE NoHB
    /\ known_devices' = <<>>
    /\ CONFIG_FILE' = _write_config(ConfigData(dm.device_id, known_devices'))
    /\ lastSaved' = [m \in DOMAIN lastSaved |-> NoSave]
    /\ ctl' = [ctl EXCEPT !.current_connected_mac = "None"]
    /\ ui' = show_qr(ui, NoMessage)
    /\ screenLog' = <<>>
    /\ workers' = Detached(workers, known_devices)
    /\ UNCHANGED <<USE_REAL_NETWORK, app, wifi, now, hbStarts, nSaves, hbVars, bleVars,
                   backend, scanCapable, net, clockq, dm>>

\* AppController.forget_device: the user tapped 'Forget' on the home screen
forget_device ==
    /\ MayForget
    /\ ui.current = "home"
    /\ boot' = [UserDid("forget") EXCEPT !.pending = TRUE]
    /\ IF Truthy(ctl.current_connected_mac)
       THEN /\ known_devices' =
                  remove_device(known_devices, ctl.current_connected_mac)
            /\ CONFIG_FILE' =
                  _write_config(ConfigData(dm.device_id, known_devices'))
            /\ lastSaved' = [lastSaved EXCEPT
                  ![ctl.current_connected_mac] = NoSave]
            /\ ctl' = [ctl EXCEPT !.current_connected_mac = "None"]
            /\ workers' = Detached(workers, known_devices)
       ELSE UNCHANGED <<known_devices, CONFIG_FILE, lastSaved, ctl, workers>>
    /\ ui' = [ui EXCEPT !.current = "pairing"]
    /\ screenLog' = <<>>
    /\ UNCHANGED <<USE_REAL_NETWORK, app, wifi, now, heartbeat, hbStarts, nSaves, hbVars,
                   bleVars, backend, scanCapable, net, clockq, dm>>

(***************************************************************************)
(* AppController: the except blocks of the background threads              *)
(***************************************************************************)
\* the show_qr message of the except block of each thread: a fixed text
\* for the scan and the wait thread, f"Connection error:\n{e}" for the
\* WiFi threads
CrashMessage(kind) ==
    IF kind = "scan" THEN [text |-> "Scan failed - try again", name |-> ""]
    ELSE IF kind = "wait" THEN [text |-> "Pairing error - try again", name |-> ""]
    ELSE [text |-> "Connection error", name |-> ""]

\* the callback the except block posts: the lambda of the WiFi threads reads
\* the name e of `except Exception as e` when it is called
CrashCallback(kind) ==
    IF kind \in {"auto", "newpair"} THEN "show_qr_e" ELSE "show_qr"

\* a call made by thread w raises; `except Exception` of the thread's
\* function (or of its wrapper) posts show_qr and the thread returns
WorkerCrash(w) ==
    /\ boot.faults < MaxFaults
    /\ workers.live[w].pc = "run"
    /\ boot' = [boot EXCEPT !.faults = @ + 1]
    /\ LET t == workers.live[w]
       IN  /\ clockq' = Append(clockq,
                 Callback(CrashCallback(t.kind), CrashMessage(t.kind), 0))
           /\ workers' = Put(w, [t EXCEPT !.pc = "done",
                                 !.log = Append(@, Ev("crash", t.attempt))])
    /\ UNCHANGED <<regVars, hbVars, bleVars, backend, scanCapable, net, ctl,
                   ui, screenLog>>

\* Clock runs the lambda posted by the except block of a WiFi thread. The
\* name e is unbound once the except block is left, so the f-string raises
\* NameError on the UI thread and show_qr is not called; show_qr is called
\* only if the Clock runs the lambda before the thread leaves the block
ClockCrashMessage ==
    /\ clockq # <<>>
    /\ Head(clockq).fn = "show_qr_e"
    /\ clockq' = Tail(clockq)
    /\ \/ /\ ui' = show_qr(ui, Head(clockq).arg)
          /\ screenLog' = Logged(ui')
       \/ /\ ui' = [ui EXCEPT !.fault = TRUE]
          /\ UNCHANGED screenLog
    /\ UNCHANGED <<regVars, hbVars, bleVars, backend, scanCapable, net, ctl,
                   workers, boot>>

(***************************************************************************)
(* The application: MiniKApp builds DeviceManager and AppController, and   *)
(* calls start_pairing_screen once the hardware is initialised.            *)
(***************************************************************************)
Init ==
    /\ USE_REAL_NETWORK \in BOOLEAN
    /\ backend \in IF USE_REAL_NETWORK THEN {"real", "mock"} ELSE {"mock"}
    /\ scanCapable \in BOOLEAN
    /\ known_devices \in InitRegistries
    /\ now = 1
    /\ heartbeat = NoHB
    /\ hbStarts = 0
    /\ lastSaved = [m \in MACs \cup {""} |-> NoSave]
    /\ nSaves = 0
    /\ DmIdle
    /\ HbIdle
    /\ BleIdle
    /\ WifiIdle
    /\ AppIdle
    /\ net = NetworkManager
    /\ ctl = AppController
    /\ ui = PairingScreen
    /\ workers = NoWorkers
    /\ clockq = <<>>
    /\ screenLog = <<>>
    /\ boot = [pending |-> TRUE, emptyAtBoot |-> ~has_known_devices(known_devices),
               userActions |-> 0, last |-> "none", faults |-> 0]

Next ==
    \/ start_pairing_screen
    \/ \E w \in 1..Len(workers.live) : ScanWorker(w)
    \/ ClockAutoConnect
    \/ ClockShowQr
    \/ ClockPrompt
    \/ ClockGoHome
    \/ \E w \in 1..Len(workers.live) : AutoConnectAttempt(w)
    \/ \E w \in 1..Len(workers.live) : AutoConnectWrite(w)
    \/ \E w \in 1..Len(workers.live) : RetrySleep(w)
    \/ start_pairing
    \/ GattServer
    \/ PhoneWrite
    \/ \E w \in 1..Len(workers.live) : WaitWorkerPaired(w)
    \/ \E w \in 1..Len(workers.live) : WaitWorkerTimeout(w)
    \/ BlePairingTimeout
    \/ ClockOnPaired
    \/ \E w \in 1..Len(workers.live) : NewPairAttempt(w)
    \/ \E w \in 1..Len(workers.live) : NewPairSendIp(w)
    \/ \E w \in 1..Len(workers.live) : NewPairFinish(w)
    \/ rescan_for_devices
    \/ retry_wifi_now
    \/ reset_pairing
    \/ forget_device
    \/ \E w \in 1..Len(workers.live) : WorkerCrash(w)
    \/ ClockCrashMessage

Spec == Init /\ [][Next]_vars

(***************************************************************************)
(* Properties of the controller                                            *)
(***************************************************************************)
\* every background thread: the running ones and the one that returned last
AllThreads ==
    {workers.live[i] : i \in 1..Len(workers.live)} \cup {workers.done}

\* the places of the calls of one kind in what a thread did
Positions(log, e) == {i \in 1..Len(log) : log[i].ev = e}

\* the retry loop of one thread
RetryDiscipline(t) ==
    LET connects == Positions(t.log, "connect")
        sleeps   == Positions(t.log, "sleep")
        oks      == Positions(t.log, "ok")
    IN  /\ Cardinality(connects) <= WIFI_RETRY_LIMIT
        /\ \A i, j \in connects :
              i < j => \E k \in sleeps : i < k /\ k < j
        /\ \A i \in oks, j \in connects : j < i

\* C2: in every run of the retry logic, of the reconnect branch and of the
\* fresh-pair branch alike, connect_wifi is called at most WIFI_RETRY_LIMIT
\* times, a time.sleep(WIFI_RETRY_INTERVAL) lies between any two of the calls,
\* and no call follows the one that returned true.
C2_BoundedSpacedRetries ==
    \A t \in AllThreads :
        t.kind \in {"auto", "newpair"} => RetryDiscipline(t)

\* a fresh-pair run that failed twice and connected on the third attempt
C2_Witness ==
    /\ workers.done.kind = "newpair"
    /\ workers.done.fails = 2
    /\ Cardinality(Positions(workers.done.log, "connect")) = WIFI_RETRY_LIMIT
    /\ Positions(workers.done.log, "ok") # {}

\* C7: booted with an empty registry and before any user action, no scan
\* thread exists, scan_for_devices has not been called, and once
\* start_pairing_screen has run the QR state is the only state ever shown.
C7_EmptyRegistryBootShowsQr ==
    (boot.emptyAtBoot /\ boot.userActions = 0) =>
        /\ net.scanCalls = 0
        /\ \A t \in AllThreads : t.kind # "scan"
        /\ ~boot.pending =>
              /\ ui.current = "pairing"
              /\ ui.state = "qr"
              /\ screenLog = <<"qr">>

C7_Witness ==
    /\ boot.emptyAtBoot
    /\ boot.userActions = 0
    /\ ~boot.pending
    /\ ui.state = "qr"

\* C8: when the device of the registry is found by the scan and connect_wifi
\* succeeds on attempt 1, with no user action, the states shown up to the
\* home screen are scanning, connecting, home, and HeartbeatManager.start()
\* has been called exactly once.
C8_ReconnectStartsHeartbeatOnce ==
    ( /\ USE_REAL_NETWORK
      /\ backend = "real"
      /\ boot.userActions = 0
      /\ ui.current = "home"
      /\ workers.done.kind = "auto"
      /\ workers.done.fails = 0
      /\ Truthy(workers.done.arg.phone_address) ) =>
        /\ screenLog = <<"scanning", "connecting", "home">>
        /\ hbStarts = 1

\* the device of the registry whose reconnect thread t ran for
KnownName(t) ==
    {known_devices[i].ble_name : i \in
        {j \in 1..Len(known_devices) :
            known_devices[j].ble_mac = t.arg.ble_mac}}

\* C9: when the three connect_wifi calls of a reconnect all fail, with no user
\* action, notify_enable_hotspot is called after each failure, the hotspot
\* prompt is posted after attempts 1 and 2 only, and the last state shown is
\* qr with a message that names the known device.
C9_ExhaustedReconnectFallsBackToQr ==
    LET t == workers.done
    IN  ( /\ boot.userActions = 0
          /\ t.kind = "auto"
          /\ t.fails = WIFI_RETRY_LIMIT ) =>
            /\ t.log = << Ev("connect", 1), Ev("notify", 1), Ev("prompt", 1),
                          Ev("sleep", 1),
                          Ev("connect", 2), Ev("notify", 2), Ev("prompt", 2),
                          Ev("sleep", 2),
                          Ev("connect", 3), Ev("notify", 3), Ev("qr", 3) >>
            /\ net.notifyCalls = WIFI_RETRY_LIMIT
            /\ IF clockq # <<>>
               THEN clockq[Len(clockq)].fn = "show_qr"
                    /\ clockq[Len(clockq)].arg.name \in KnownName(t)
               ELSE /\ ui.current = "pairing"
                    /\ ui.state = "qr"
                    /\ ui.message.name \in KnownName(t)
                    /\ screenLog = <<"scanning", "connecting",
                                     "hotspot_prompt", "hotspot_prompt", "qr">>

\* the three attempts failed and the QR state with the message is on screen
C9_Witness ==
    /\ boot.userActions = 0
    /\ workers.done.kind = "auto"
    /\ workers.done.fails = WIFI_RETRY_LIMIT
    /\ clockq = <<>>
    /\ ui.state = "qr"
    /\ ui.message.name = "A"

\* C10: a fresh-pair run on the real backend that stopped BLE after a
\* successful connect_wifi wrote the Pi's IP to the IP characteristic before
\* it stopped BLE, then started the server, then posted the home screen.
C10_IpSentBeforeBleStopped ==
    LET t == workers.done
    IN  ( /\ backend = "real"
          /\ t.kind = "newpair"
          /\ Positions(t.log, "stop_ble") # {} ) =>
            \E i \in Positions(t.log, "send_ip"),
               j \in Positions(t.log, "stop_ble"),
               k \in Positions(t.log, "server"),
               h \in Positions(t.log, "home") : i < j /\ j < k /\ k < h

\* C11: when every connect_wifi call of a fresh-pairing exchange has failed,
\* the registry holds no entry made by that exchange: booted with an empty
\* registry, it is still empty.
C11_EntryOnlyAfterSuccessfulPairing ==
    ( /\ boot.emptyAtBoot
      /\ workers.done.kind = "newpair"
      /\ workers.done.fails = WIFI_RETRY_LIMIT ) =>
        known_devices = <<>>

\* the keys of a persisted entry
EntryFields == {"ble_name", "ble_mac", "ssid", "phone_address", "last_connected"}

\* C12: the password is never persisted: every entry of the registry (the
\* list that _write_config dumps to the config file) has exactly the fields
\* ble_name, ble_mac, ssid, phone_address and last_connected, and saving
\* credentials that differ only in the password gives the same registry.
C12_PasswordNeverPersisted ==
    /\ \A i \in 1..Len(known_devices) : DOMAIN known_devices[i] = EntryFields
    /\ \A c \in CredInputs, pw \in Passwords :
          save_pairing(known_devices, [c EXCEPT !.password = pw], now)
             = save_pairing(known_devices, c, now)

\* two saves with different passwords have gone into the registry
C12_Witness ==
    /\ lastSaved["m1"] # NoSave
    /\ lastSaved["m2"] # NoSave
    /\ lastSaved["m1"].password = <<"p">>
    /\ lastSaved["m2"].password = <<"q">>
    /\ Len(known_devices) >= 2

\* C13: forget_device on the home screen removes the entry of the active
\* device (current_connected_mac, as set by the connect that led to home)
\* and only that entry: afterwards no entry has that ble_mac and the other
\* entries are unchanged and in the same order.
C13_ForgetRemovesActiveDeviceOnly ==
    [][ (ui.current = "home" /\ ui'.current = "pairing") =>
          LET mac == ctl.current_connected_mac
              Others(d) == d.ble_mac # mac
          IN  /\ \A i \in 1..Len(known_devices') :
                    known_devices'[i].ble_mac # mac
              /\ known_devices' = SelectSeq(known_devices, Others) ]_vars

\* C14: an exception raised inside a background thread is contained: with no
\* user action, once the threads have returned and the Clock queue has
\* drained, the crashed thread's show_qr has been called with a non-empty
\* message and nothing was raised on the UI thread.
C14_CrashLandsInQr ==
    ( /\ boot.userActions = 0
      /\ Positions(workers.done.log, "crash") # {}
      /\ workers.live = <<>>
      /\ clockq = <<>> ) =>
        /\ ~ui.fault
        /\ ui.current = "pairing"
        /\ ui.state = "qr"
        /\ ui.message.text # ""

\* C15: start_advertising returns True only when the peripheral is
\* registered: while the advertising it reported as started has not been
\* stopped, the registration of the GATT application and of the
\* advertisement is under way or done, never failed.
C15_TrueOnlyWhenRegistered ==
    (bleGhost.advOk /\ ble._running) => ble.gatt \in {"starting", "up"}

\* C16: a connect of the reconnect path, which passes no password, has
\* brought up the saved profile of the SSID: on the real backend the commands
\* of the latest connect_wifi of a reconnect thread include 'nmcli con up'.
C16_ReconnectUsesSavedProfile ==
    ( /\ backend = "real"
      /\ workers.live = <<>>
      /\ workers.done.kind = "auto"
      /\ Positions(workers.done.log, "connect") # {} ) =>
        \E i \in 1..Len(net.nmcli) : net.nmcli[i] = "con up"

\* C17: in one process lifetime start_wifi_server is called at most once, and
\* only after a connect_wifi that returned true.
C17_ServerStartedOnce ==
    /\ net.serverStarts <= 1
    /\ net.serverStarts > 0 => net.mode = "wifi"

(***************************************************************************)
(* Scheduling: threads that can run do run, the Clock calls what was       *)
(* posted and fires its timers, the GATT server thread finishes its        *)
(* registration. User taps, writes by the phone and exceptions are not     *)
(* required to happen.                                                     *)
(***************************************************************************)
SystemStep ==
    \/ start_pairing_screen
    \/ ClockAutoConnect
    \/ ClockShowQr
    \/ ClockPrompt
    \/ ClockGoHome
    \/ ClockOnPaired
    \/ ClockCrashMessage
    \/ BlePairingTimeout
    \/ GattServer
    \/ \E w \in 1..Len(workers.live) :
          \/ ScanWorker(w)
          \/ AutoConnectAttempt(w)
          \/ AutoConnectWrite(w)
          \/ RetrySleep(w)
          \/ WaitWorkerPaired(w)
          \/ WaitWorkerTimeout(w)
          \/ NewPairAttempt(w)
          \/ NewPairSendIp(w)
          \/ NewPairFinish(w)

SpecLive == Init /\ [][Next]_vars /\ WF_vars(SystemStep)

\* Scanning, Connecting, HotspotPrompt, AwaitingCredentials
Transient ==
    /\ ui.current = "pairing"
    /\ ui.state \in {"scanning", "connecting", "hotspot_prompt", "waiting_ble"}

\* ConnectedHome or ProvisioningQR
Landed == ui.current = "home" \/ (ui.current = "pairing" /\ ui.state = "qr")

\* C18: under fair scheduling of the threads and the Clock, from Scanning,
\* Connecting, HotspotPrompt and AwaitingCredentials the system eventually
\* reaches the home screen or the QR state.
C18_EveryPathLands == Transient ~> Landed

\* C19: results of threads superseded by a user action are discarded. After
\* reset_pairing, which starts nothing, and until the next user action the
\* screen stays in the QR state, the registry stays empty and
\* current_connected_mac stays None.
C19_LateResultsDiscarded ==
    boot.last = "reset" =>
        /\ ui.current = "pairing"
        /\ ui.state = "qr"
        /\ ctl.current_connected_mac = "None"
        /\ known_devices = <<>>

\* C20: the registry mutations are serialized, and an entry that
\* remove_device or reset_pairing removed is never written back by an
\* update_last_connected that was running at the same time: the step in which
\* update_last_connected stores its list leaves no device in the registry
\* that was not in it before the step.
Macs(known) == {known[i].ble_mac : i \in 1..Len(known)}

C20_RemovedEntryNotWrittenBack ==
    [][ (\E w \in 1..Len(workers.live) :
            /\ workers.live[w].pc = "write"
            /\ Len(workers'.live) < Len(workers.live)
            /\ workers'.done.kind = "auto"
            /\ Len(workers'.done.log) > 0
            /\ workers'.done.log[Len(workers'.done.log)].ev = "home"
            /\ now' # now)
          => Macs(known_devices') \subseteq Macs(known_devices) ]_vars

(***************************************************************************)
(* The registry file over the life of the program: the four mutations,     *)
(* each ending in _write_config, the death of the process at any point,    *)
(* and the next start, which loads what the file holds.  USE_REAL_NETWORK  *)
(* is off here, so that save_pairing and reset_pairing are the registry    *)
(* mutation and the write only; lastSaved and nSaves, which record the     *)
(* save_pairing calls for the registry properties, are not kept here.      *)
(***************************************************************************)
\* f"MINIK-{uuid.uuid4().hex[:8].upper()}"
FreshIds == {"id1", "id2"}

Down ==
    [device_id |-> "None", pc |-> "down", buf |-> <<>>, next |-> "up",
     old |-> Content("None", <<>>), new |-> Content("None", <<>>),
     hit |-> FALSE, nWrites |-> 0, loaded |-> FALSE]

\* a mutation of the registry up to and including the open(CONFIG_FILE, 'w')
\* of its _write_config: the list is in config_data, the file is empty, the
\* dump is still to be written
Mutation(known) ==
    /\ dm.pc = "up"
    /\ dm.nWrites < MaxWrites
    /\ known_devices' = known
    /\ CONFIG_FILE' = File(<<>>)
    /\ dm' = [dm EXCEPT !.pc = "writing",
                        !.buf = dumps(ConfigData(dm.device_id, known)),
                        !.next = "up",
                        !.old = Content(dm.device_id, known_devices),
                        !.new = Content(dm.device_id, known),
                        !.hit = FALSE,
                        !.nWrites = @ + 1]
    /\ UNCHANGED <<USE_REAL_NETWORK, app, wifi, heartbeat, hbStarts, lastSaved, nSaves,
                   hbVars, bleVars, ctlVars>>

FileSavePairing ==
    \E c \in CredInputs :
       /\ Mutation(save_pairing(known_devices, c, now))
       /\ now' = now + 1

FileUpdateLastConnected ==
    \E mac \in MACs \cup {""} :
       /\ Mutation(update_last_connected(known_devices, mac, now))
       /\ now' = now + 1

FileRemoveDevice ==
    \E mac \in MACs \cup {""} :
       /\ Mutation(remove_device(known_devices, mac))
       /\ UNCHANGED now

FileResetPairing ==
    /\ Mutation(<<>>)
    /\ UNCHANGED now

\* json.dump writes the next piece; after the last one the file is closed
\* and _write_config returns
FileWrite ==
    /\ dm.pc = "writing"
    /\ CONFIG_FILE' = File(Append(CONFIG_FILE.text, Head(dm.buf)))
    /\ dm' = [dm EXCEPT !.buf = Tail(@),
                        !.pc = IF Len(dm.buf) = 1 THEN dm.next ELSE @]
    /\ UNCHANGED <<USE_REAL_NETWORK, app, wifi, known_devices, now, heartbeat, hbStarts,
                   lastSaved, nSaves, hbVars, bleVars, ctlVars>>

\* the process dies (power cut, kill): what is in memory is gone, the file
\* stays as it is
FileCrash ==
    /\ dm.pc # "down"
    /\ dm' = [dm EXCEPT !.pc = "down", !.device_id = "None", !.buf = <<>>,
                        !.next = "up", !.loaded = FALSE,
                        !.hit = @ \/ (dm.pc = "writing" /\ dm.next = "up")]
    /\ known_devices' = <<>>
    /\ UNCHANGED <<USE_REAL_NETWORK, app, wifi, now, heartbeat, hbStarts, lastSaved,
                   nSaves, CONFIG_FILE, hbVars, bleVars, ctlVars>>

\* what open(CONFIG_FILE, 'r') and json.load give: the data, or an exception
json_load(file) == IF file.exists THEN loads(file.text) ELSE NoParse

\* DeviceManager.__init__, first line: _load_or_generate_device_id
FileLoadOrGenerate ==
    /\ dm.pc = "down"
    /\ LET data == json_load(CONFIG_FILE)
       IN  IF data.ok /\ HasKey(data.val, "device_id")
           THEN /\ dm' = [dm EXCEPT !.pc = "boot",
                             !.device_id = ModelStr(Value(data.val, "device_id"))]
                /\ UNCHANGED CONFIG_FILE
           ELSE \E device_id \in FreshIds :
                /\ dm' = [dm EXCEPT !.pc = "writing",
                             !.device_id = device_id,
                             !.buf = dumps(ConfigData(device_id, <<>>)),
                             !.next = "boot"]
                /\ CONFIG_FILE' = File(<<>>)
    /\ UNCHANGED <<USE_REAL_NETWORK, app, wifi, known_devices, now, heartbeat, hbStarts,
                   lastSaved, nSaves, hbVars, bleVars, ctlVars>>

\* DeviceManager._load_config: the file's data, or the default
_load_config(file, device_id) ==
    LET data == json_load(file)
    IN  IF data.ok THEN data.val ELSE ConfigData(device_id, <<>>)

\* DeviceManager.__init__, second line: config_data = _load_config()
FileLoadConfig ==
    /\ dm.pc = "boot"
    /\ known_devices' = LoadedDevices(_load_config(CONFIG_FILE, dm.device_id))
    /\ dm' = [dm EXCEPT !.pc = "up", !.next = "up", !.loaded = TRUE]
    /\ UNCHANGED <<USE_REAL_NETWORK, app, wifi, now, heartbeat, hbStarts, lastSaved,
                   nSaves, CONFIG_FILE, hbVars, bleVars, ctlVars>>

\* a running program with its file, or the first start with no file yet
FileInit ==
    /\ USE_REAL_NETWORK = FALSE
    /\ now = 1
    /\ heartbeat = NoHB
    /\ hbStarts = 0
    /\ lastSaved = [m \in MACs \cup {""} |-> NoSave]
    /\ nSaves = 0
    /\ \/ known_devices \in InitRegistries /\ DmIdle
       \/ known_devices = <<>> /\ dm = Down /\ CONFIG_FILE = NoFile
    /\ HbIdle
    /\ BleIdle
    /\ WifiIdle
    /\ AppIdle
    /\ CtlIdle

FileNext ==
    \/ FileSavePairing
    \/ FileUpdateLastConnected
    \/ FileRemoveDevice
    \/ FileResetPairing
    \/ FileWrite
    \/ FileCrash
    \/ FileLoadOrGenerate
    \/ FileLoadConfig

SpecFile == FileInit /\ [][FileNext]_vars

\* C21: a load that follows the death of the process inside the
\* _write_config of a mutation finds the registry and the device_id as they
\* were before that mutation, or as the mutation made them.
C21_CrashLeavesOldOrNew ==
    (dm.pc = "up" /\ dm.hit) =>
        Content(dm.device_id, known_devices) \in {dm.old, dm.new}

\* C22: every registry content that save_pairing, remove_device,
\* reset_pairing and update_last_connected lead to comes back from the file
\* as it was written: json.load of what _write_config wrote gives the same
\* set of entries and the same device_id, and a program started again after
\* a completed write holds that set and that device_id.
Entries(known) == {known[i] : i \in 1..Len(known)}

C22_WriteThenLoadIsIdentity ==
    dm.pc = "up" =>
        /\ LET back == _load_config(
                          _write_config(ConfigData(dm.device_id, known_devices)),
                          "None")
           IN  /\ Entries(LoadedDevices(back)) = Entries(known_devices)
               /\ HasKey(back, "device_id")
               /\ ModelStr(Value(back, "device_id")) = dm.device_id
        /\ (dm.loaded /\ ~dm.hit /\ dm.nWrites > 0) =>
              /\ Entries(known_devices) = Entries(dm.new.known)
              /\ dm.device_id = dm.new.device_id

\* a program started again after its second mutation, with three devices in
\* the registry it loaded, one of them saved from BLE credentials (no MAC,
\* no name, no phone address yet)
C22_Witness ==
    /\ dm.pc = "up" /\ dm.loaded /\ ~dm.hit /\ dm.nWrites = MaxWrites
    /\ Len(known_devices) = 3
    /\ \E i \in 1..Len(known_devices) :
          /\ known_devices[i].phone_address = "None"
          /\ known_devices[i].ble_mac = ""

\* C23: with a registry that is not empty, a scan made while a known phone
\* advertises in range reports that phone (and so posts _auto_connect, which
\* shows Connecting), whichever backend NetworkManager selected.
C23_ScanReportsPhoneInRange ==
    ( /\ workers.done.kind = "scan"
      /\ Positions(workers.done.log, "near") # {} ) =>
        Positions(workers.done.log, "found") # {}

\* C24: a tap on Retry Now while the hotspot prompt is shown moves the
\* pairing screen to Connecting and starts a WiFi connect for the same
\* device: the thread the tap starts is a connect thread, never a scan.
C24_RetryNowReconnects ==
    [][ ( /\ ui.state = "hotspot_prompt"
          /\ boot'.userActions = boot.userActions + 1
          /\ boot'.last = "retry" ) =>
            /\ ui'.state = "connecting"
            /\ Len(workers'.live) = Len(workers.live) + 1
            /\ workers'.live[Len(workers'.live)].kind = "auto" ]_vars

\* C25: when the WiFi attempts of a fresh pairing are used up, the pairing
\* screen is left at the hotspot prompt, not at the QR code, so that the
\* connection can be tried again with the credentials received.
C25_FreshPairExhaustedPromptsAgain ==
    ( /\ boot.last = "pair"
      /\ workers.live = <<>>
      /\ clockq = <<>>
      /\ workers.done.kind = "newpair"
      /\ workers.done.fails = WIFI_RETRY_LIMIT
      /\ Positions(workers.done.log, "qr") # {} ) =>
        /\ ui.current = "pairing"
        /\ ui.state = "hotspot_prompt"

\* the controller on the real backend with one known phone, under fair
\* scheduling of the threads and the Clock
InitReal ==
    /\ Init
    /\ USE_REAL_NETWORK
    /\ backend = "real"
    /\ Len(known_devices) = 1

SpecRealLive == InitReal /\ [][Next]_vars /\ WF_vars(SystemStep)

\* C26: advertising was started on the real backend and nothing else is in
\* flight.  If the phone does not complete the credentials and the user does
\* nothing more, the pairing screen eventually shows the QR code with the
\* time-out message while BLE is stopped; and the step of the time-out
\* starts no thread, makes no WiFi call and leaves the registry as it is.
AwaitingCredentials ==
    /\ backend = "real"
    /\ boot.last = "pair"
    /\ ui.current = "pairing"
    /\ ui.state = "waiting_ble"
    /\ ctl.ble_timeout_event = "pending"
    /\ clockq = <<>>
    /\ Len(workers.live) = 1
    /\ workers.live[1].kind = "wait"

TimedOutQr ==
    /\ ui.current = "pairing"
    /\ ui.state = "qr"
    /\ ui.message.text = "Pairing timed out"
    /\ ~ble._running

C27_OfflineIsNotFatal ==
    [][ ( \/ /\ heartbeat._is_connected # "False"
             /\ heartbeat'._is_connected = "False"
          \/ /\ clockq # <<>>
             /\ Head(clockq).fn = "on_disconnected"
             /\ clockq' = Tail(clockq) ) =>
            /\ ui' = ui
            /\ ctl' = ctl
            /\ known_devices' = known_devices
            /\ CONFIG_FILE' = CONFIG_FILE
            /\ workers' = workers
            /\ ble' = ble
            /\ net' = net ]_vars

\* on the home screen, the monitor went Offline and its callback has run
C27_Witness ==
    /\ ui.current = "home"
    /\ ctl.current_connected_mac = "m1"
    /\ heartbeat._is_connected = "False"
    /\ Len(cbLog) > 0
    /\ cbLog[Len(cbLog)] = "on_disconnected"
    /\ clockq = <<>>

\* a step of the UI thread: a tap of the user, a callback the Clock runs,
\* or the Clock firing the BLE time-out
OnControlThread ==
    \/ boot'.userActions # boot.userActions
    \/ clockq # <<>> /\ clockq' = Tail(clockq)
    \/ ctl.ble_timeout_event = "pending" /\ ctl'.ble_timeout_event = "fired"

\* the step went through a blocking call: _write_config (file I/O),
\* BLEManager.start_advertising (time.sleep(1)) or BLEManager.stop (two
\* subprocess.run)
BlockingCall ==
    \/ CONFIG_FILE' # CONFIG_FILE
    \/ ble'._running # ble._running
    \/ ble'.gatt # ble.gatt

\* C28: no step of the UI thread goes through a blocking call: starting and
\* stopping BLE and writing the registry file happen on worker threads only.
C28_ControlThreadNeverBlocks ==
    [][ OnControlThread => ~BlockingCall ]_vars

(***************************************************************************)
(* WiFiManager.connect: the thread that runs nmcli, and the polls of the   *)
(* active SSID                                                             *)
(***************************************************************************)
\* for _ in range(30)
MAX_POLLS == 30

\* the password connect is called with: one received over BLE, or None
ConnectPasswords == Passwords \cup {None}

\* what 'iwgetid -r' prints: the SSID the interface is on and a newline
iwgetid(active) == active \o <<"\n">>

\* _is_connected_to comparing the output as printed
_is_connected_to_raw(stdout, ssid, raised) ==
    IF raised THEN FALSE ELSE stdout = ssid

\* WiFiManager._is_connected_to: result.stdout.strip() == ssid, and False
\* when subprocess.run raised
_is_connected_to(stdout, ssid, raised) ==
    IF raised THEN FALSE ELSE strip(stdout) = ssid

\* WiFiManager.connect up to its loop: the thread `delayed` is started
WifiConnect ==
    /\ wifi.pc = "idle"
    /\ \E ssid \in SSIDs, password \in ConnectPasswords :
          wifi' = [wifi EXCEPT !.pc = "poll", !.ssid = ssid,
                               !.password = password, !.polls = 0,
                               !.nmcli = "pending", !.ret = "None",
                               !.saw = FALSE]
    /\ UNCHANGED <<USE_REAL_NETWORK, app, known_devices, now, heartbeat, hbStarts,
                   lastSaved, nSaves, CONFIG_FILE, dm, hbVars, bleVars,
                   ctlVars>>

\* the thread `delayed`: time.sleep(2), then _do_connect, whose commands
\* end in one of the results (with password None no command is started)
WifiDelayed ==
    /\ wifi.nmcli = "pending"
    /\ \E result \in NmcliResults :
          wifi' = [wifi EXCEPT !.nmcli =
                      IF _do_connect(wifi.password, result) = <<>>
                      THEN "raised" ELSE result]
    /\ UNCHANGED <<USE_REAL_NETWORK, app, known_devices, now, heartbeat, hbStarts,
                   lastSaved, nSaves, CONFIG_FILE, dm, hbVars, bleVars,
                   ctlVars>>

\* the interface joins a network or leaves the one it is on
WifiLink ==
    /\ \E active \in SSIDs \cup {<<>>} :
          /\ active # wifi.active
          /\ wifi' = [wifi EXCEPT !.active = active]
    /\ UNCHANGED <<USE_REAL_NETWORK, app, known_devices, now, heartbeat, hbStarts,
                   lastSaved, nSaves, CONFIG_FILE, dm, hbVars, bleVars,
                   ctlVars>>

\* one pass of the loop of connect: time.sleep(1), then _is_connected_to;
\* return True on a match, return False after the last pass
WifiPoll ==
    /\ wifi.pc = "poll"
    /\ wifi.polls < MAX_POLLS
    /\ \E raised \in BOOLEAN :
          LET found == _is_connected_to(iwgetid(wifi.active), wifi.ssid, raised)
              n == wifi.polls + 1
          IN  wifi' = [wifi EXCEPT
                 !.polls = n,
                 !.saw = @ \/ (~raised /\ wifi.active = wifi.ssid),
                 !.ret = IF found THEN "True"
                         ELSE IF n = MAX_POLLS THEN "False" ELSE @,
                 !.pc = IF found \/ n = MAX_POLLS THEN "done" ELSE @]
    /\ UNCHANGED <<USE_REAL_NETWORK, app, known_devices, now, heartbeat, hbStarts,
                   lastSaved, nSaves, CONFIG_FILE, dm, hbVars, bleVars,
                   ctlVars>>

WifiInit ==
    /\ USE_REAL_NETWORK = TRUE
    /\ known_devices = <<>>
    /\ now = 1
    /\ heartbeat = NoHB
    /\ hbStarts = 0
    /\ lastSaved = [m \in MACs \cup {""} |-> NoSave]
    /\ nSaves = 0
    /\ DmIdle
    /\ HbIdle
    /\ BleIdle
    /\ WifiIdle
    /\ AppIdle
    /\ CtlIdle

WifiNext == WifiConnect \/ WifiDelayed \/ WifiLink \/ WifiPoll

SpecWifi == WifiInit /\ [][WifiNext]_vars

\* C29: connect returns True exactly when one of its polls, of which there
\* are at most 30, ran while the interface was on the target SSID; it
\* returns False only after 30 polls; what nmcli reported has no part in it.
C29_TrueIffAPollSawTheSsid ==
    /\ wifi.polls <= MAX_POLLS
    /\ wifi.pc = "poll" => (wifi.ret = "None" /\ ~wifi.saw)
    /\ wifi.pc = "done" =>
          /\ wifi.ret \in {"True", "False"}
          /\ wifi.ret = "True" <=> wifi.saw
          /\ wifi.ret = "True" => wifi.polls >= 1
          /\ wifi.ret = "False" => wifi.polls = MAX_POLLS

\* connect returned False after 30 polls although nmcli reported success,
\* and connect returned True at its last poll although nmcli reported an
\* error: both are reached
C29_Witness ==
    /\ wifi.pc = "done"
    /\ wifi.polls = MAX_POLLS
    /\ \/ wifi.ret = "False" /\ wifi.nmcli = "successfully"
       \/ wifi.ret = "True" /\ wifi.nmcli = "error"

(***************************************************************************)
(* update_last_connected on the reconnect thread: what it changes in the   *)
(* list it read                                                            *)
(***************************************************************************)
\* the list that thread t, inside update_last_connected, got from
\* get_known_devices
Held(t) == IF t.known.alias THEN known_devices ELSE t.known.list

\* entries d and e agree in every field other than last_connected
SameButLastConnected(d, e) ==
    /\ DOMAIN d = DOMAIN e
    /\ \A f \in DOMAIN d \ {"last_connected"} : d[f] = e[f]

\* `after` is `before` with at most the last_connected of the first entry
\* with ble_mac changed
OnlyLastConnectedOf(before, after, ble_mac) ==
    /\ Len(after) = Len(before)
    /\ \A i \in 1..Len(before) :
          /\ SameButLastConnected(before[i], after[i])
          /\ after[i] # before[i] =>
                /\ before[i].ble_mac = ble_mac
                /\ \A j \in 1..(i - 1) : before[j].ble_mac # ble_mac
    /\ ble_mac \notin Macs(before) => after = before

\* C30: on every successful reconnect, the list update_last_connected stores
\* and writes is the list it read with only the last_connected of the entry
\* with the reconnected ble_mac changed: same number of entries, same order,
\* every other field of every entry the same; with no entry of that ble_mac
\* the list is stored as it was read.
C30_OnlyLastConnectedChanges ==
    [][ \A w \in 1..Len(workers.live) :
           AutoConnectWrite(w) =>
              OnlyLastConnectedOf(Held(workers.live[w]), known_devices',
                                  workers.live[w].arg.ble_mac) ]_vars

\* a reconnect has finished and stamped the second of two entries, the
\* first is as it was
C30_Witness ==
    /\ workers.done.kind = "auto"
    /\ Len(workers.done.log) > 0
    /\ workers.done.log[Len(workers.done.log)].ev = "home"
    /\ Len(known_devices) = 2
    /\ known_devices[1] = Device("m2", "B", <<"b">>)
    /\ known_devices[2].ble_mac = "m1"
    /\ known_devices[2].last_connected > 0

(***************************************************************************)
(* DeviceManager.scan_for_known_devices on the scan thread, step by step:  *)
(* it reads the registry and builds known_macs and known_names, the radio  *)
(* scan runs for up to `timeout` seconds, and then the report is looked up *)
(* in the two dicts.  The UI thread may call reset_pairing of the same      *)
(* DeviceManager in between ('Reset All Pairings' is on the pairing        *)
(* screen in every state of it).                                           *)
(***************************************************************************)
\* the scan thread is started (rescan_for_devices, start_pairing_screen)
ScanStart ==
    /\ Len(workers.live) = 0
    /\ net.scanCalls < MaxScans
    /\ workers' = Spawn(Thread("scan", NotFound))
    /\ UNCHANGED <<regVars, hbVars, bleVars, backend, scanCapable, net, ctl,
                   ui, clockq, screenLog, boot>>

\* known = self.get_known_devices(); `if not known: return None`; else the
\* dicts are built from the entries the list holds now and the radio scan
\* is started
ScanRead(w) ==
    /\ workers.live[w].kind = "scan"
    /\ workers.live[w].pc = "run"
    /\ IF ~has_known_devices(known_devices)
       THEN /\ workers' = Put(w, [workers.live[w] EXCEPT !.pc = "done",
                             !.log = Append(@, Ev("none", 0))])
            /\ UNCHANGED net
       ELSE /\ workers' = Put(w, [workers.live[w] EXCEPT !.pc = "radio",
                             !.known = [alias |-> FALSE,
                                        list |-> known_devices]])
            /\ net' = [net EXCEPT !.scanCalls = @ + 1]
    /\ UNCHANGED <<regVars, hbVars, bleVars, backend, scanCapable, ctl, ui,
                   clockq, screenLog, boot>>

\* the entries the dicts of thread t were built from
Snapshot(t) == t.known.list

\* what the radio can report to thread t
Reports(t) ==
    BackendScan(Macs(Snapshot(t)),
                {Snapshot(t)[i].ble_name : i \in 1..Len(Snapshot(t))})

\* the value scan_for_known_devices returns to thread t for the report
\* `near`: the entry of its dicts, or None
Match(t, near) ==
    LET known == Snapshot(t)
        macs  == Macs(known)
        names == {known[i].ble_name : i \in 1..Len(known)}
        found == IF near \in scan_for_devices(macs, names)
                 THEN near ELSE NotFound
        m     == scan_for_known_devices(known, found)
    IN  IF m = 0 THEN NotFound ELSE known[m]

\* the radio scan returns `near` and scan_for_known_devices returns
ScanReturnWith(w, near) ==
    /\ workers.live[w].kind = "scan"
    /\ workers.live[w].pc = "radio"
    /\ near \in Reports(workers.live[w])
    /\ LET t == workers.live[w]
           match == Match(t, near)
       IN  workers' = Put(w, [t EXCEPT !.pc = "done", !.arg = match,
                !.log = Append(@, Ev(IF match = NotFound THEN "none"
                                     ELSE "found", 0))])
    /\ UNCHANGED <<regVars, hbVars, bleVars, backend, scanCapable, net, ctl,
                   ui, clockq, screenLog, boot>>

ScanReturn(w) ==
    \E near \in Reports(workers.live[w]) : ScanReturnWith(w, near)

\* DeviceManager.reset_pairing on the UI thread
ScanResetPairing ==
    /\ known_devices # <<>>
    /\ heartbeat' = IF heartbeat.state = "absent" THEN heartbeat ELSE NoHB
    /\ known_devices' = <<>>
    /\ CONFIG_FILE' = _write_config(ConfigData(dm.device_id, known_devices'))
    /\ lastSaved' = [m \in DOMAIN lastSaved |-> NoSave]
    /\ UNCHANGED <<USE_REAL_NETWORK, app, wifi, now, hbStarts, nSaves, dm, hbVars,
                   bleVars, ctlVars>>

ScanInit ==
    /\ USE_REAL_NETWORK \in BOOLEAN
    /\ known_devices \in InitRegistries
    /\ now = 1
    /\ heartbeat = NoHB
    /\ hbStarts = 0
    /\ lastSaved = [m \in MACs \cup {""} |-> NoSave]
    /\ nSaves = 0
    /\ DmIdle
    /\ HbIdle
    /\ BleIdle
    /\ WifiIdle
    /\ AppIdle
    /\ backend = "mock"
    /\ scanCapable \in BOOLEAN
    /\ net = NetworkManager
    /\ ctl = AppController
    /\ ui = PairingScreen
    /\ workers = NoWorkers
    /\ clockq = <<>>
    /\ screenLog = <<>>
    /\ boot = [pending |-> FALSE, emptyAtBoot |-> FALSE, userActions |-> 0,
               last |-> "none", faults |-> 0]

ScanNext ==
    \/ ScanStart
    \/ \E w \in 1..Len(workers.live) : ScanRead(w)
    \/ \E w \in 1..Len(workers.live) : ScanReturn(w)
    \/ ScanResetPairing

SpecScan == ScanInit /\ [][ScanNext]_vars

\* m is an entry of the list `known`
IsEntryOf(m, known) == \E i \in 1..Len(known) : known[i] = m

\* what scan_for_known_devices may return for the report `near`, given the
\* entries `known`: None, or an entry of `known` with the reported ble_mac
\* or ble_name, and the one with the reported ble_mac when there is one
ReturnsMatchOf(match, near, known) ==
    \/ match = NotFound
    \/ /\ IsEntryOf(match, known)
       /\ match.ble_mac = near.mac \/ match.ble_name = near.name
       /\ near.mac \in Macs(known) => match.ble_mac = near.mac

\* C31: scan_for_known_devices returns None or an entry that is in the
\* registry when it returns, whose ble_mac or ble_name is the reported one,
\* the entry matched by MAC first; with an empty registry it returns None
\* and the radio scan is not invoked.
C31_ReturnsRegistryEntryOrNone ==
    [][ \A w \in 1..Len(workers.live) :
          /\ \A near \in Reports(workers.live[w]) :
                ScanReturnWith(w, near) =>
                   ReturnsMatchOf(workers'.done.arg, near, known_devices)
          /\ (ScanRead(w) /\ ~has_known_devices(known_devices)) =>
                (workers'.done.arg = NotFound /\ net' = net) ]_vars

\* the WiFi connect-with-retry workers that have not returned
ConnectWorkers ==
    {w \in 1..Len(workers.live) : workers.live[w].kind \in {"auto", "newpair"}}

\* C32: at most one WiFi connect-with-retry worker is active at any time: a
\* connect worker is never started while an earlier one has not finished.
C32_OneConnectWorker == Cardinality(ConnectWorkers) <= 1

\* the registry entries with the ble_mac `mac`
EntriesOf(known, mac) == {i \in 1..Len(known) : known[i].ble_mac = mac}

\* C33: whenever the home screen is entered after a successful connect,
\* current_connected_mac is non-empty and is the ble_mac of exactly one
\* entry of the registry, on the reconnect and on the fresh-pair branch and
\* whatever reset_pairing did in between.
C33_HomeHasOneActiveDevice ==
    [][ (ui.current # "home" /\ ui'.current = "home") =>
           /\ Truthy(ctl'.current_connected_mac)
           /\ Cardinality(EntriesOf(known_devices',
                                    ctl'.current_connected_mac)) = 1 ]_vars

\* the credentials BLEManager.wait_for_pairing returns to _on_paired:
\* ssid, password and phone_address None, with no ble_mac or ble_name
ProvisionedCreds ==
    [ssid : SSIDs, password : Passwords, phone_address : {"None"}]

\* C34: provisioning a second, different phone through the BLE server never
\* removes or overwrites the entry of a phone provisioned before: a
\* save_pairing of credentials from wait_for_pairing whose hotspot is not
\* in the registry leaves every entry in place and adds one.
C34_SecondPhoneKeepsFirst ==
    [][ \A c \in ProvisionedCreds :
           (/\ SavePairingStep(c)
            /\ \A i \in 1..Len(known_devices) : known_devices[i].ssid # c.ssid)
           => /\ Len(known_devices') = Len(known_devices) + 1
              /\ \A i \in 1..Len(known_devices) :
                    IsEntryOf(known_devices[i], known_devices') ]_vars

\* the BLE provisioning peripheral is advertising: the GATT application and
\* the advertisement are registered and the event loop runs
Advertising == ble.gatt = "up"

\* C35: whenever the pairing screen shows the QR code with the pair and scan
\* buttons enabled, the BLE provisioning peripheral is not advertising.
C35_QrMeansBleStopped == PairBtnEnabled(ui) => ~Advertising

\* C36: a heartbeat monitor is running only while the home screen is shown:
\* it is not started before a WiFi connect has succeeded, and it is stopped
\* when the active device is forgotten or all pairings are reset.
C36_HeartbeatOnlyAtHome == heartbeat.state = "running" => ui.current = "home"

(***************************************************************************)
(* One HeartbeatManager and its loop threads: start() clears _stop_event   *)
(* and starts a thread that runs _loop, stop() sets _stop_event.  A loop   *)
(* thread is in _stop_event.wait(timeout=HEARTBEAT_INTERVAL) ("wait"), has  *)
(* been woken there by stop() ("woken"), or is inside _check ("check").    *)
(* heartbeat.state is "running" while _stop_event is clear and "stopped"   *)
(* while it is set.                                                        *)
(***************************************************************************)
\* HeartbeatManager.start
LoopStart ==
    /\ hbStarts < MaxStarts
    /\ heartbeat' = start(heartbeat)
    /\ hbStarts' = hbStarts + 1
    /\ workers' = Spawn([Thread("heartbeat", NotFound) EXCEPT !.pc = "wait"])
    /\ UNCHANGED <<USE_REAL_NETWORK, app, wifi, known_devices, now, lastSaved,
                   nSaves, CONFIG_FILE, dm, hbVars, bleVars, backend,
                   scanCapable, net, ctl, ui, clockq, screenLog, boot>>

\* the loop threads after _stop_event.set(): every thread inside wait
\* is woken and its wait returns True
Woken(ws) ==
    LET Wake(t) == IF t.kind = "heartbeat" /\ t.pc = "wait"
                   THEN [t EXCEPT !.pc = "woken"] ELSE t
    IN  [ws EXCEPT !.live = [i \in DOMAIN @ |-> Wake(@[i])]]

\* HeartbeatManager.stop
LoopStop ==
    /\ heartbeat.state = "running"
    /\ heartbeat' = stop(heartbeat)
    /\ workers' = Woken(workers)
    /\ UNCHANGED <<USE_REAL_NETWORK, app, wifi, known_devices, now, hbStarts,
                   lastSaved, nSaves, CONFIG_FILE, dm, hbVars, bleVars,
                   backend, scanCapable, net, ctl, ui, clockq, screenLog,
                   boot>>

\* _loop: wait returned False after HEARTBEAT_INTERVAL, _check is entered
LoopTimeout(w) ==
    /\ workers.live[w].kind = "heartbeat"
    /\ workers.live[w].pc = "wait"
    /\ nProbes < MaxProbes
    /\ workers' = Put(w, [workers.live[w] EXCEPT !.pc = "check"])
    /\ nProbes' = nProbes + 1
    /\ UNCHANGED <<regVars, hbRun, hbPrev, lastReach, lastSched, cbLog,
                   bleVars, backend, scanCapable, net, ctl, ui, clockq,
                   screenLog, boot>>

\* _check runs to its end and _loop calls wait again, which returns True
\* at once when _stop_event is set
LoopCheck(w) ==
    /\ workers.live[w].kind = "heartbeat"
    /\ workers.live[w].pc = "check"
    /\ \E reachable \in BOOLEAN :
          LET r == _check(heartbeat, reachable)
          IN  /\ heartbeat' = r.h
              /\ hbPrev' = heartbeat._is_connected
              /\ lastReach' = IF reachable THEN "ok" ELSE "fail"
              /\ hbRun' = IF reachable THEN 0 ELSE hbRun + 1
              /\ lastSched' = r.sched
              /\ cbLog' = IF r.sched = "none" THEN cbLog
                          ELSE Append(cbLog, r.sched)
              /\ clockq' = IF r.sched = "none" THEN clockq
                           ELSE Append(clockq,
                                       Callback(r.sched, [name |-> ""], 0))
    /\ workers' = Put(w, [workers.live[w] EXCEPT !.pc =
                      IF heartbeat.state = "stopped" THEN "done" ELSE "wait"])
    /\ UNCHANGED <<USE_REAL_NETWORK, app, wifi, known_devices, now, hbStarts,
                   lastSaved, nSaves, CONFIG_FILE, dm, nProbes, bleVars,
                   backend, scanCapable, net, ctl, ui, screenLog, boot>>

\* _loop ends: the wait that stop() woke returned True
LoopExit(w) ==
    /\ workers.live[w].kind = "heartbeat"
    /\ workers.live[w].pc = "woken"
    /\ workers' = Put(w, [workers.live[w] EXCEPT !.pc = "done"])
    /\ UNCHANGED <<regVars, hbVars, bleVars, backend, scanCapable, net, ctl,
                   ui, clockq, screenLog, boot>>

LoopInit ==
    /\ USE_REAL_NETWORK = TRUE
    /\ known_devices \in {<<>>, <<Device("m1", "A", <<"a">>)>>}
    /\ now = 1
    /\ \E a \in {"ip1", "ip2"} : heartbeat = HeartbeatManager(a)
    /\ hbStarts = 0
    /\ lastSaved = [m \in MACs \cup {""} |-> NoSave]
    /\ nSaves = 0
    /\ DmIdle
    /\ HbIdle
    /\ BleIdle
    /\ WifiIdle
    /\ AppIdle
    /\ CtlIdle

ProbeLoopNext ==
    \/ LoopStart
    \/ LoopStop
    \/ \E w \in 1..Len(workers.live) : LoopTimeout(w)
    \/ \E w \in 1..Len(workers.live) : LoopCheck(w)
    \/ \E w \in 1..Len(workers.live) : LoopExit(w)
    \/ HbClock

SpecProbeLoop == LoopInit /\ [][ProbeLoopNext]_vars

\* the loop threads that are inside _check
Checking ==
    {w \in 1..Len(workers.live) :
        workers.live[w].kind = "heartbeat" /\ workers.live[w].pc = "check"}

\* the loop threads that wait for the next probe
Waiting ==
    {w \in 1..Len(workers.live) :
        workers.live[w].kind = "heartbeat" /\ workers.live[w].pc = "wait"}

\* C37: for one HeartbeatManager and any interleaving of start() and stop()
\* with the probe loop, at most one loop is executing _check at a time, and
\* once stop() was called with no later start() no loop stays to probe
\* again: each is leaving, or finishing the _check it was in.
C37_OneProbeLoop ==
    /\ Cardinality(Checking) <= 1
    /\ heartbeat.state = "stopped" => Waiting = {}

(***************************************************************************)
(* WiFiManager: the results the phone POSTs to the Flask server, and       *)
(* wait_for_message.  After send_image (send_file) returned True the       *)
(* controller starts a thread that calls wait_for_message for the result   *)
(* type, and the phone, which has the file, POSTs /result/<type>; the      *)
(* handler receive_result runs on a thread of the server.                  *)
(***************************************************************************)
WifiOnly ==
    UNCHANGED <<USE_REAL_NETWORK, app, known_devices, now, heartbeat, hbStarts,
                lastSaved, nSaves, CONFIG_FILE, dm, hbVars, bleVars, ctlVars>>

\* the data of the n-th result
ResultData(n) == <<"result", ToString(n)>>

\* send_image / send_file returned True: the phone will POST the result,
\* and the thread that calls wait_for_message(t) is started
SendReturned(t) ==
    /\ wifi.post[t] \in {"none", "done"}
    /\ wifi.wfm[t].pc \in {"idle", "done"}
    /\ wifi.rounds[t] < MaxRounds
    /\ wifi' = [wifi EXCEPT !.post[t] = "pending",
                            !.sent[t] = ResultData(wifi.rounds[t] + 1),
                            !.wfm[t] = [pc |-> "clear", ret |-> NoResult],
                            !.rounds[t] = @ + 1]
    /\ WifiOnly

\* receive_result: with self._results_lock: self._results[t] = data
ReceiveResultStore(t) ==
    /\ wifi.post[t] = "pending"
    /\ wifi' = [wifi EXCEPT !.post[t] = "stored",
                            !._results[t] = wifi.sent[t]]
    /\ WifiOnly

\* receive_result: self._result_events[t].set()
ReceiveResultSet(t) ==
    /\ wifi.post[t] = "stored"
    /\ wifi' = [wifi EXCEPT !.post[t] = "done", !._result_events[t] = TRUE]
    /\ WifiOnly

\* wait_for_message: event.clear()
WaitClear(t) ==
    /\ wifi.wfm[t].pc = "clear"
    /\ wifi' = [wifi EXCEPT !.wfm[t].pc = "pop", !._result_events[t] = FALSE]
    /\ WifiOnly

\* wait_for_message: with the lock, self._results.pop(t, None)
WaitPop(t) ==
    /\ wifi.wfm[t].pc = "pop"
    /\ wifi' = [wifi EXCEPT !.wfm[t].pc = "wait", !._results[t] = NoResult]
    /\ WifiOnly

\* wait_for_message: event.wait(timeout) returns True, the event is set
WaitReceived(t) ==
    /\ wifi.wfm[t].pc = "wait"
    /\ wifi._result_events[t]
    /\ wifi' = [wifi EXCEPT !.wfm[t].pc = "get"]
    /\ WifiOnly

\* wait_for_message: with the lock, result = self._results.get(t);
\* return result
WaitGet(t) ==
    /\ wifi.wfm[t].pc = "get"
    /\ wifi' = [wifi EXCEPT !.wfm[t] = [pc |-> "done",
                                        ret |-> wifi._results[t]]]
    /\ WifiOnly

\* wait_for_message: event.wait(timeout) returns False and None is
\* returned.  Only the timeout with the POST already handled is modelled: the
\* event is then never set, however long the timeout
WaitTimeout(t) ==
    /\ wifi.wfm[t].pc = "wait"
    /\ ~wifi._result_events[t]
    /\ wifi.post[t] = "done"
    /\ wifi' = [wifi EXCEPT !.wfm[t] = [pc |-> "done", ret |-> NoResult]]
    /\ WifiOnly

ResultNext ==
    \E t \in ResultTypes :
       \/ SendReturned(t)
       \/ ReceiveResultStore(t)
       \/ ReceiveResultSet(t)
       \/ WaitClear(t)
       \/ WaitPop(t)
       \/ WaitReceived(t)
       \/ WaitGet(t)
       \/ WaitTimeout(t)

SpecResult == WifiInit /\ [][ResultNext]_vars

\* C38: a result the phone POSTs after send_image (send_file) returned
\* success is never lost: whatever the interleaving of the POST handler
\* with wait_for_message for that type, wait_for_message returns that result.
C38_PostedResultIsReturned ==
    \A t \in ResultTypes :
       (wifi.wfm[t].pc = "done" /\ wifi.post[t] = "done")
          => wifi.wfm[t].ret = wifi.sent[t]

(***************************************************************************)
(* MiniKApp at boot: on_start starts the thread _init_hardware and         *)
(* schedules _check_hw_ready every 0.2 s on the Clock                      *)
(***************************************************************************)
\* `self._hw_wait_elapsed >= 5.0`, in polls of 0.2 s
HW_WAIT_LIMIT == 25

\* the dt the Clock hands to a poll: the interval, or more when a frame is
\* late, in units of 0.2 s
PollDts == 1..MaxDt

\* a poll that stays scheduled
unschedule_kept(a) == a

\* Clock.unschedule(self._check_hw_ready)
unschedule(a) == [a EXCEPT !.poll = FALSE]

\* _init_hardware reaches its finally, after initialize() returned or
\* raised: self._hw_ready.set()
InitHardwareDone ==
    /\ ~app._hw_ready
    /\ app' = [app EXCEPT !._hw_ready = TRUE]
    /\ UNCHANGED <<USE_REAL_NETWORK, known_devices, now, heartbeat, hbStarts,
                   lastSaved, nSaves, CONFIG_FILE, dm, wifi, hbVars, bleVars,
                   ctlVars>>

\* MiniKApp._check_hw_ready(dt), run by the Clock while it is scheduled
_check_hw_ready ==
    /\ app.poll
    /\ app.starts < MaxBootStarts
    /\ \E dt \in PollDts :
          LET elapsed   == app._hw_wait_elapsed + dt
              hw_done   == app._hw_ready
              timed_out == elapsed >= HW_WAIT_LIMIT
              polled    == [app EXCEPT !._hw_wait_elapsed = elapsed]
          IN  IF hw_done \/ timed_out
              THEN /\ app' = [unschedule(polled) EXCEPT
                                 !.starts = @ + 1,
                                 !.why = IF hw_done THEN "hw_done"
                                         ELSE "timed_out"]
                   /\ PairingScreenLogic
              ELSE /\ app' = polled
                   /\ UNCHANGED <<USE_REAL_NETWORK, known_devices, now,
                                  heartbeat, hbStarts, lastSaved, nSaves,
                                  CONFIG_FILE, dm, wifi, hbVars, bleVars,
                                  ctlVars>>

BootInit ==
    /\ USE_REAL_NETWORK \in BOOLEAN
    /\ backend \in IF USE_REAL_NETWORK THEN {"real", "mock"} ELSE {"mock"}
    /\ scanCapable \in BOOLEAN
    /\ known_devices \in InitRegistries
    /\ now = 1
    /\ heartbeat = NoHB
    /\ hbStarts = 0
    /\ lastSaved = [m \in MACs \cup {""} |-> NoSave]
    /\ nSaves = 0
    /\ DmIdle
    /\ HbIdle
    /\ BleIdle
    /\ WifiIdle
    /\ app = MiniKApp
    /\ net = NetworkManager
    /\ ctl = AppController
    /\ ui = PairingScreen
    /\ workers = NoWorkers
    /\ clockq = <<>>
    /\ screenLog = <<>>
    /\ boot = [pending |-> TRUE,
               emptyAtBoot |-> ~has_known_devices(known_devices),
               userActions |-> 0, last |-> "none", faults |-> 0]

BootNext == InitHardwareDone \/ _check_hw_ready

\* the Clock keeps running the poll while it is scheduled
SpecBoot == BootInit /\ [][BootNext]_vars /\ WF_vars(_check_hw_ready)

\* the pairing logic has been started: the pairing screen has left its
\* initial state
PairingStarted == ~boot.pending /\ ui.state \in {"scanning", "qr"}

\* C39: at boot start_pairing_screen is started exactly once and always
\* eventually: by the first poll that finds the hardware initialisation
\* finished (completed or failed), or by the poll at which 5 s have passed;
\* that poll is unscheduled, so the logic never runs a second time.
C39_PairingLogicStartedOnce ==
    /\ [](/\ app.starts <= 1
          /\ app.starts = 1 <=> ~app.poll
          /\ app.starts = 1 <=> PairingStarted
          /\ app.poll => app._hw_wait_elapsed < HW_WAIT_LIMIT
          /\ app.why = "hw_done" => app._hw_ready
          /\ app.why = "timed_out" =>
                app._hw_wait_elapsed >= HW_WAIT_LIMIT)
    /\ [][(app.poll /\ app._hw_ready /\ app'._hw_wait_elapsed #
              app._hw_wait_elapsed) => app'.starts = 1]_vars
    /\ <>[](app.starts = 1 /\ ~app.poll)

\* the logic was started by the fallback: the hardware initialisation had
\* not finished when 5 s had passed
C39_Witness ==
    /\ app.starts = 1
    /\ app.why = "timed_out"
    /\ ~app._hw_ready
    /\ PairingStarted

=============================================================================
